---- MODULE Spec2Model ----
\* Smart-Parking-Simulator: the parking facility (spots, navigation graph,
\* shortest path, preference score, assign / vacate), the three assignment
\* strategies and the discrete-event simulator, as a state machine.
\*
\* Conventions
\*   None / Some(x)   Python's None and a present value: <<>> and <<x>>.
\*   spot id          the string "floor-n" is the pair <<floor, n>>; the dict
\*                    self.spots keeps insertion order, so spots is the sequence
\*                    of spot records in creation order (n = index).
\*   graph node       the string "floor-x-y" is the triple <<floor, x, y>>; with
\*                    one-digit coordinates the string order heapq uses on ties
\*                    is the lexicographic order of the triples.
\*   Infinity         float('inf'): a number larger than every finite value of
\*                    the model, with saturating addition.
EXTENDS Integers, Sequences, FiniteSets, TLC

VARIABLES
    client,            \* who drives the objects: "unit" calls the ParkingSpot methods of
                       \* the spots directly, "facility" calls the facility, "strategy"
                       \* is about to call one of the three strategies on a prepared
                       \* facility ("returned" once the call is over), "query" is about
                       \* to call a query, "simulation" drives the simulator
    facility,          \* the ParkingFacility: layout, spots, vehicles, total_spots,
                       \* available_spots, statistics
    clock,             \* the wall clock read by time.time(), in seconds
    last,              \* the last call made on the program: its name, arguments and result
    simulator          \* the SmartParkingSimulator: simulation_time, vehicle_id_counter,
                       \* events, arrival_rate, is_running, time_of_day, day_of_week

vars == <<client, facility, clock, last, simulator>>

-----------------------------------------------------------------------------
\* Bounds of the model

\* the wall clock takes the values 0..MaxClock
MaxClock == 1

\* the callers' vehicles have the ids 1..MaxVehicles
MaxVehicles == 2

\* assign_vehicle_to_spot is called while total_vehicles < MaxServed
MaxServed == 2

\* the vehicles the simulator generates in a run
MaxGenerated == 3

\* the time a run of the simulator reaches, in steps of the least duration
MaxSteps == 2

-----------------------------------------------------------------------------
\* Values

None == <<>>

Some(x) == <<x>>

Infinity == 1000000

Plus(a, b) == IF a >= Infinity \/ b >= Infinity THEN Infinity ELSE a + b

Min2(a, b) == IF a <= b THEN a ELSE b

Max2(a, b) == IF a >= b THEN a ELSE b

Abs(a) == IF a < 0 THEN 0 - a ELSE a

Range(s) == {s[i] : i \in DOMAIN s}

RECURSIVE Reverse(_)
Reverse(s) == IF s = <<>> THEN <<>> ELSE Append(Reverse(Tail(s)), Head(s))

\* the result of a call: the value returned, or the exception raised
Returned(v) == [raised |-> "", value |-> v]

Raised(e) == [raised |-> e, value |-> None]

-----------------------------------------------------------------------------
\* Layout configurations (the layout dict of ParkingFacility)

SpotTypes == <<"standard", "handicap", "electric">>

\* spot_types in dict order, with the distribution of each in percent
AllTypes == << <<"standard", 80>>, <<"handicap", 10>>, <<"electric", 10>> >>

\* spot_types with no electric spot
TwoTypes == << <<"standard", 50>>, <<"handicap", 50>>, <<"electric", 0>> >>

\* the scenario of the specification: entrance (0,1), spots at (1,1) and (3,1)
LayoutLine ==
    [dimensions |-> <<4, 2>>, floors |-> 1, spot_types |-> TwoTypes,
     entrances |-> << <<0, 1>> >>, exits |-> <<>>,
     aisles |-> {<<0, 0>>, <<1, 0>>, <<2, 0>>, <<3, 0>>, <<2, 1>>}]

\* spot_types with standard spots only
OneType == << <<"standard", 100>>, <<"handicap", 0>>, <<"electric", 0>> >>

\* LayoutLine with standard spots only
LayoutLineStandard == [LayoutLine EXCEPT !.spot_types = OneType]

\* three spots in a row behind the entrance
LayoutRow ==
    [dimensions |-> <<2, 2>>, floors |-> 1, spot_types |-> AllTypes,
     entrances |-> << <<0, 0>> >>, exits |-> <<>>,
     aisles |-> {}]

\* two floors joined at the entrance, two spots on each
LayoutTwoFloor ==
    [dimensions |-> <<2, 2>>, floors |-> 2, spot_types |-> TwoTypes,
     entrances |-> << <<0, 0>> >>, exits |-> << <<1, 0>> >>,
     aisles |-> {}]

\* two floors and no entrance: no edge joins the floors; one spot on each
LayoutNoEntrance ==
    [dimensions |-> <<2, 1>>, floors |-> 2, spot_types |-> TwoTypes,
     entrances |-> <<>>, exits |-> <<>>,
     aisles |-> {<<1, 0>>}]

\* LayoutNoEntrance with standard spots only
LayoutNoEntranceStandard == [LayoutNoEntrance EXCEPT !.spot_types = OneType]

\* one floor, seven spots around the entrance (more spots than the top 5)
LayoutWide ==
    [dimensions |-> <<3, 3>>, floors |-> 1, spot_types |-> TwoTypes,
     entrances |-> << <<0, 1>> >>, exits |-> <<>>,
     aisles |-> {<<1, 1>>}]

\* the entrance at the far end of a row: the spots nearest to it come last
LayoutFarEntrance ==
    [dimensions |-> <<5, 1>>, floors |-> 1, spot_types |-> TwoTypes,
     entrances |-> << <<4, 0>> >>, exits |-> <<>>,
     aisles |-> {<<2, 0>>}]

\* one standard spot beside the entrance
LayoutOneSpot ==
    [dimensions |-> <<2, 1>>, floors |-> 1, spot_types |-> OneType,
     entrances |-> << <<0, 0>> >>, exits |-> <<>>,
     aisles |-> {}]

\* a row of seven standard spots: the farthest lie more than 5 cells from the
\* entrance
LayoutLong ==
    [dimensions |-> <<8, 1>>, floors |-> 1, spot_types |-> OneType,
     entrances |-> << <<0, 0>> >>, exits |-> <<>>,
     aisles |-> {}]

\* a row with an entrance at each end
LayoutTwoEntrances ==
    [dimensions |-> <<5, 1>>, floors |-> 1, spot_types |-> TwoTypes,
     entrances |-> << <<0, 0>>, <<4, 0>> >>, exits |-> <<>>,
     aisles |-> {}]

Width(l) == l.dimensions[1]

Height(l) == l.dimensions[2]

-----------------------------------------------------------------------------
\* Navigation graph

Nodes(l) == {<<f, x, y>> : f \in 0..(l.floors - 1), x \in 0..(Width(l) - 1), y \in 0..(Height(l) - 1)}

\* directions = [(0, 1), (1, 0), (0, -1), (-1, 0)]
directions == << <<0, 1>>, <<1, 0>>, <<0, -1>>, <<-1, 0>> >>

\* the neighbours of (floor, x, y) within its floor, in the order of directions
GridNeighbors(l, n) ==
    LET cand == [i \in 1..4 |-> <<n[1], n[2] + directions[i][1], n[3] + directions[i][2]>>]
        ok(c) == 0 <= c[2] /\ c[2] < Width(l) /\ 0 <= c[3] /\ c[3] < Height(l)
    IN  SelectSeq(cand, ok)

\* the neighbours appended by the loop over floors and entrances: for each
\* floor in range(floors - 1) and each entrance, node (floor, x, y) gains
\* (floor+1, x, y) and node (floor+1, x, y) gains (floor, x, y)
RECURSIVE FloorLinks(_, _, _, _)
FloorLinks(l, n, floor, e) ==
    IF floor >= l.floors - 1 THEN <<>>
    ELSE IF e > Len(l.entrances) THEN FloorLinks(l, n, floor + 1, 1)
    ELSE LET x == l.entrances[e][1]
             y == l.entrances[e][2]
             here == IF n = <<floor, x, y>> THEN << <<floor + 1, x, y>> >>
                     ELSE IF n = <<floor + 1, x, y>> THEN << <<floor, x, y>> >>
                     ELSE <<>>
         IN  here \o FloorLinks(l, n, floor, e + 1)

\* an entrance outside the grid makes graph[node_id1] a KeyError
GraphBuildRaises(l) ==
    /\ l.floors >= 2
    /\ \E e \in Range(l.entrances) :
          ~(0 <= e[1] /\ e[1] < Width(l) /\ 0 <= e[2] /\ e[2] < Height(l))

\* self.graph: node -> list of neighbours
_build_navigation_graph(l) ==
    [n \in Nodes(l) |-> GridNeighbors(l, n) \o FloorLinks(l, n, 0, 1)]

-----------------------------------------------------------------------------
\* Shortest path

\* tuple order of heapq entries (distance, node)
NodeLess(a, b) ==
    \/ a[1] < b[1]
    \/ a[1] = b[1] /\ a[2] < b[2]
    \/ a[1] = b[1] /\ a[2] = b[2] /\ a[3] < b[3]

EntryLess(p, q) == p[1] < q[1] \/ (p[1] = q[1] /\ NodeLess(p[2], q[2]))

\* a queue that pops its greatest entry
HeapTopGreatest(pq) == CHOOSE p \in pq : \A q \in pq : q = p \/ EntryLess(q, p)

\* heapq.heappop: the least entry of the queue
HeapTop(pq) == CHOOSE p \in pq : \A q \in pq : q = p \/ EntryLess(p, q)

\* the for loop over the neighbours of current_node
RECURSIVE Relax(_, _, _, _)
Relax(nbrs, current_node, current_distance, st) ==
    IF nbrs = <<>> THEN st
    ELSE LET neighbor == Head(nbrs)
             distance == current_distance + 1
             st2 == IF distance < st.distances[neighbor]
                    THEN [distances |-> [st.distances EXCEPT ![neighbor] = distance],
                          previous  |-> [st.previous EXCEPT ![neighbor] = Some(current_node)],
                          pq        |-> st.pq \cup {<<distance, neighbor>>}]
                    ELSE st
         IN  Relax(Tail(nbrs), current_node, current_distance, st2)

\* the while pq loop
RECURSIVE DijkstraLoop(_, _, _)
DijkstraLoop(graph, target, st) ==
    IF st.pq = {} THEN st
    ELSE LET top == HeapTop(st.pq)
             current_distance == top[1]
             current_node == top[2]
             popped == [st EXCEPT !.pq = @ \ {top}]
         IN  IF current_node = target THEN popped
             ELSE IF current_distance > popped.distances[current_node]
                  THEN DijkstraLoop(graph, target, popped)
                  ELSE DijkstraLoop(graph, target,
                           Relax(graph[current_node], current_node, current_distance, popped))

\* path reconstruction: while current: path.append(current); current = previous[current]
RECURSIVE WalkBack(_, _)
WalkBack(previous, current) ==
    IF current = None THEN <<>>
    ELSE <<current[1]>> \o WalkBack(previous, previous[current[1]])

\* ParkingFacility._dijkstra(start, target) on self.graph
_dijkstra(graph, start, target) ==
    IF start \notin DOMAIN graph \/ target \notin DOMAIN graph
    THEN Raised("KeyError")
    ELSE LET st0 == [distances |-> [n \in DOMAIN graph |-> IF n = start THEN 0 ELSE Infinity],
                     previous  |-> [n \in DOMAIN graph |-> None],
                     pq        |-> {<<0, start>>}]
             st == DijkstraLoop(graph, target, st0)
             path == Reverse(WalkBack(st.previous, Some(target)))
         IN  Returned(<<st.distances[target], path>>)

\* every layout the model builds a facility from
ModelLayouts ==
    {LayoutLine, LayoutLineStandard, LayoutRow, LayoutTwoFloor, LayoutNoEntrance, LayoutWide,
     LayoutFarEntrance, LayoutOneSpot, LayoutNoEntranceStandard}

\* the results of _dijkstra on the graph of each layout, computed once per layout
\* (the graph is built at construction and never changes)
DijkstraTable ==
    [l \in ModelLayouts |->
        LET g == _build_navigation_graph(l)
        IN  [p \in Nodes(l) \X Nodes(l) |-> _dijkstra(g, p[1], p[2])]]

\* self._dijkstra(start, target)
ShortestPath(l, start, target) ==
    IF start \in Nodes(l) /\ target \in Nodes(l)
    THEN DijkstraTable[l][<<start, target>>]
    ELSE Raised("KeyError")

-----------------------------------------------------------------------------
\* ParkingSpot

\* ParkingSpot.__init__
ParkingSpot(spot_id, location, spot_type, floor) ==
    [id |-> spot_id, location |-> location, type |-> spot_type, floor |-> floor,
     occupied |-> FALSE, reserved |-> FALSE, vehicle_id |-> None,
     occupied_since |-> None, reserved_until |-> None]

\* occupy that does not record the time
occupy_untimed(spot, vehicle_id, now) ==
    IF spot.occupied \/ spot.reserved
    THEN [ret |-> FALSE, spot |-> spot]
    ELSE [ret |-> TRUE,
          spot |-> [spot EXCEPT !.occupied = TRUE, !.vehicle_id = Some(vehicle_id)]]

\* ParkingSpot.occupy(vehicle_id), time.time() = now
occupy(spot, vehicle_id, now) ==
    IF spot.occupied \/ spot.reserved
    THEN [ret |-> FALSE, spot |-> spot]
    ELSE [ret |-> TRUE,
          spot |-> [spot EXCEPT !.occupied = TRUE, !.vehicle_id = Some(vehicle_id),
                                !.occupied_since = Some(now)]]

\* ParkingSpot.vacate(), time.time() = now: False (ok = FALSE), or the duration in seconds
vacate(spot, now) ==
    IF ~spot.occupied
    THEN [ok |-> FALSE, duration |-> 0, spot |-> spot]
    ELSE [ok |-> TRUE, duration |-> now - spot.occupied_since[1],
          spot |-> [spot EXCEPT !.occupied = FALSE, !.vehicle_id = None,
                                !.occupied_since = None]]

\* reserve(duration=30): the default duration, in minutes
ReserveMinutes == 30

\* reserve that looks at the reserved flag only
reserve_unchecked(spot, now) ==
    IF spot.reserved
    THEN [ret |-> FALSE, spot |-> spot]
    ELSE [ret |-> TRUE,
          spot |-> [spot EXCEPT !.reserved = TRUE,
                                !.reserved_until = Some(now + ReserveMinutes * 60)]]

\* ParkingSpot.reserve(), time.time() = now
reserve(spot, now) ==
    IF spot.occupied \/ spot.reserved
    THEN [ret |-> FALSE, spot |-> spot]
    ELSE [ret |-> TRUE,
          spot |-> [spot EXCEPT !.reserved = TRUE,
                                !.reserved_until = Some(now + ReserveMinutes * 60)]]

\* ParkingSpot.cancel_reservation()
cancel_reservation(spot) ==
    IF ~spot.reserved
    THEN [ret |-> FALSE, spot |-> spot]
    ELSE [ret |-> TRUE,
          spot |-> [spot EXCEPT !.reserved = FALSE, !.reserved_until = None]]

\* ParkingSpot.get_status()
get_status(spot) ==
    IF spot.occupied THEN "occupied"
    ELSE IF spot.reserved THEN "reserved"
    ELSE "available"

-----------------------------------------------------------------------------
\* Vehicle

\* Vehicle.__init__ followed by set_preferences; preferences is the set of the
\* flags the dict maps to True
Vehicle(vehicle_id, vehicle_type, arrival_time, expected_duration, preferences) ==
    [id |-> vehicle_id, type |-> vehicle_type, arrival_time |-> arrival_time,
     expected_duration |-> expected_duration, assigned_spot |-> None,
     preferences |-> preferences]

\* Vehicle.assign_spot(spot_id)
assign_spot(vehicle, spot_id) == [vehicle EXCEPT !.assigned_spot = Some(spot_id)]

-----------------------------------------------------------------------------
\* ParkingFacility: construction

\* the cells of the facility in the order of the loops (floor, then y, then x)
CellSeq(l) ==
    LET w == Width(l)
        h == Height(l)
    IN  [i \in 1..(l.floors * h * w) |->
            <<(i - 1) \div (h * w), (i - 1) % w, ((i - 1) % (h * w)) \div w>>]

\* the cells that get a spot: not an aisle, not an entrance, not an exit
SpotCells(l) ==
    LET free(c) == /\ <<c[2], c[3]>> \notin l.aisles
                   /\ <<c[2], c[3]>> \notin Range(l.entrances)
                   /\ <<c[2], c[3]>> \notin Range(l.exits)
    IN  SelectSeq(CellSeq(l), free)

\* the values _determine_spot_type can return: r = random.random() is in [0, 1),
\* the first type whose cumulative distribution reaches r, "standard" when none does
RECURSIVE Cumulative(_, _)
Cumulative(types, i) == IF i = 0 THEN 0 ELSE types[i][2] + Cumulative(types, i - 1)

_determine_spot_type(l) ==
    LET types == l.spot_types
    IN  {types[i][1] : i \in {j \in DOMAIN types :
                                  \/ j = 1
                                  \/ types[j][2] > 0 /\ Cumulative(types, j - 1) < 100}}
        \cup (IF Cumulative(types, Len(types)) < 100 THEN {"standard"} ELSE {})

\* ParkingFacility.__init__ and _initialize_facility; types[i] is the type drawn
\* for the i-th spot
NewFacility(l, types) ==
    LET cells == SpotCells(l)
        spots == [i \in 1..Len(cells) |->
                     ParkingSpot(<<cells[i][1], i>>, <<cells[i][2], cells[i][3]>>,
                                 types[i], cells[i][1])]
    IN  [layout |-> l, spots |-> spots, vehicles |-> << >>,
         total_spots |-> Len(spots), available_spots |-> Len(spots),
         statistics |-> [total_vehicles |-> 0, avg_occupancy_rate |-> <<0, 0>>, revenue |-> 0]]

\* the facilities construction can produce from layout l
Facilities(l) ==
    {NewFacility(l, types) : types \in [1..Len(SpotCells(l)) -> _determine_spot_type(l)]}

\* the index of spot_id in self.spots, 0 when spot_id not in self.spots
SpotIndex(f, spot_id) ==
    IF \E i \in DOMAIN f.spots : f.spots[i].id = spot_id
    THEN CHOOSE i \in DOMAIN f.spots : f.spots[i].id = spot_id
    ELSE 0

SpotIds(f) == {f.spots[i].id : i \in DOMAIN f.spots}

SpotOf(f, spot_id) == f.spots[SpotIndex(f, spot_id)]

SpotNode(spot) == <<spot.floor, spot.location[1], spot.location[2]>>

-----------------------------------------------------------------------------
\* ParkingFacility: preference score and nearest available spot

\* ParkingFacility._manhattan_distance
_manhattan_distance(pos1, pos2) == Abs(pos1[1] - pos2[1]) + Abs(pos1[2] - pos2[2])

RECURSIVE MinOver(_)
MinOver(S) ==
    LET x == CHOOSE y \in S : TRUE
    IN  IF S = {x} THEN x ELSE Min2(x, MinOver(S \ {x}))

\* min() over no entrance raises ValueError
ScoreRaises(l, vehicle) == "near_entrance" \in vehicle.preferences /\ l.entrances = <<>>

\* ParkingFacility._compute_spot_preference_score(spot, vehicle); every value
\* the code adds is integral, so the float score is an integer
_compute_spot_preference_score(l, spot, vehicle) ==
    LET entrance_dist ==
            MinOver({_manhattan_distance(spot.location, l.entrances[i]) :
                        i \in DOMAIN l.entrances})
        near == IF "near_entrance" \in vehicle.preferences
                THEN Max2(0, 5 - entrance_dist)
                ELSE 0
        match == IF vehicle.type = "handicap" /\ spot.type = "handicap" THEN 20
                 ELSE IF vehicle.type = "electric" /\ spot.type = "electric" THEN 15
                 ELSE IF spot.type = "standard" THEN 5
                 ELSE 0
    IN  10 + near + match

\* compatible_spots.sort(key=score, reverse=True): a stable sort, so entries of
\* equal score keep their order; each entry is <<spot index, score>>
RECURSIVE InsertByScore(_, _)
\* the outcome of the call self._compute_spot_preference_score(spot, vehicle)
PreferenceScore(l, spot, vehicle) ==
    IF ScoreRaises(l, vehicle) THEN Raised("ValueError")
    ELSE Returned(_compute_spot_preference_score(l, spot, vehicle))

InsertByScore(sorted, e) ==
    IF sorted = <<>> THEN <<e>>
    ELSE IF Head(sorted)[2] >= e[2]
         THEN <<Head(sorted)>> \o InsertByScore(Tail(sorted), e)
         ELSE <<e>> \o sorted

RECURSIVE SortByScore(_)
SortByScore(entries) ==
    IF entries = <<>> THEN <<>>
    ELSE InsertByScore(SortByScore(SubSeq(entries, 1, Len(entries) - 1)),
                       entries[Len(entries)])

\* top_spots = compatible_spots[:5]
TopCount == 5

Prefix(s, n) == SubSeq(s, 1, Min2(n, Len(s)))

\* the loop over top_spots: the first entry of strictly smaller distance wins
RECURSIVE NearestOf(_, _, _, _, _)
NearestOf(f, start_node, top_spots, best_spot, shortest_distance) ==
    IF top_spots = <<>> THEN best_spot
    ELSE LET spot == f.spots[Head(top_spots)[1]]
             distance == ShortestPath(f.layout, start_node, SpotNode(spot)).value[1]
         IN  IF distance < shortest_distance
             THEN NearestOf(f, start_node, Tail(top_spots), Some(spot.id), distance)
             ELSE NearestOf(f, start_node, Tail(top_spots), best_spot, shortest_distance)

\* the spots that are not occupied, the reserved ones included
AvailableIndexes_unoccupied(f) ==
    SelectSeq([i \in DOMAIN f.spots |-> i], LAMBDA i : ~f.spots[i].occupied)

\* the spots that are neither occupied nor reserved, in the order of self.spots
AvailableIndexes(f) ==
    SelectSeq([i \in DOMAIN f.spots |-> i],
              LAMBDA i : ~f.spots[i].occupied /\ ~f.spots[i].reserved)

\* a search that returns the first available spot of self.spots
find_nearest_available_spot_first(f, vehicle, location) ==
    IF f.available_spots = 0 \/ AvailableIndexes(f) = <<>> THEN Returned(None)
    ELSE Returned(Some(f.spots[AvailableIndexes(f)[1]].id))

\* ParkingFacility.find_nearest_available_spot(vehicle, location); location is
\* None or Some(<<floor, x, y>>)
find_nearest_available_spot(f, vehicle, location) ==
    LET compatible_spots(avail) ==
            [k \in DOMAIN avail |->
                <<avail[k], _compute_spot_preference_score(f.layout, f.spots[avail[k]], vehicle)>>]
        top_spots(avail) == Prefix(SortByScore(compatible_spots(avail)), TopCount)
        Search(start_node, avail) ==
            IF avail = <<>> THEN Returned(None)
            ELSE IF ScoreRaises(f.layout, vehicle) THEN Raised("ValueError")
            ELSE IF start_node \notin Nodes(f.layout) THEN Raised("KeyError")
            ELSE Returned(NearestOf(f, start_node, top_spots(avail), None, Infinity))
    IN  IF f.available_spots = 0 THEN Returned(None)
        ELSE IF location = None /\ f.layout.entrances = <<>> THEN Raised("IndexError")
        ELSE Search(IF location = None
                    THEN <<0, f.layout.entrances[1][1], f.layout.entrances[1][2]>>
                    ELSE location[1],
                    AvailableIndexes(f))

-----------------------------------------------------------------------------
\* ParkingFacility: assign and vacate

\* ParkingFacility.assign_vehicle_to_spot(vehicle, spot_id), time.time() = now;
\* spot_id is None or Some(id). The result: the call's outcome, the facility
\* and the vehicle object after the call
assign_vehicle_to_spot(f, vehicle, spot_id, now) ==
    LET found == IF spot_id = None
                 THEN find_nearest_available_spot(f, vehicle, None)
                 ELSE Returned(spot_id)
        unchanged(ret) == [ret |-> ret, facility |-> f, vehicle |-> vehicle]
    IN  IF found.raised # "" THEN unchanged(Raised(found.raised))
        ELSE IF found.value = None THEN unchanged(Returned(FALSE))
        ELSE LET id == found.value[1]
                 i == SpotIndex(f, id)
             IN  IF i = 0 \/ f.spots[i].occupied \/ f.spots[i].reserved
                 THEN unchanged(Returned(FALSE))
                 ELSE LET r == occupy(f.spots[i], vehicle.id, now)
                          v == assign_spot(vehicle, id)
                      IN  IF r.ret
                          THEN [ret |-> Returned(TRUE),
                                facility |->
                                    [f EXCEPT !.spots[i] = r.spot,
                                              !.vehicles = (vehicle.id :> v) @@ f.vehicles,
                                              !.available_spots = @ - 1,
                                              !.statistics.total_vehicles = @ + 1],
                                vehicle |-> v]
                          ELSE unchanged(Returned(FALSE))

\* del self.vehicles[vehicle_id]
DelKey(d, k) == [x \in DOMAIN d \ {k} |-> d[x]]

\* vacate_spot that leaves the vehicle in self.vehicles
vacate_spot_indexed(f, spot_id, now) ==
    LET i == SpotIndex(f, spot_id)
    IN  IF i = 0 \/ ~f.spots[i].occupied
        THEN [ret |-> Returned(None), facility |-> f]
        ELSE LET r == vacate(f.spots[i], now)
             IN  [ret |-> Returned(Some(r.duration)),
                  facility |->
                      [f EXCEPT !.spots[i] = r.spot,
                                !.available_spots = @ + 1,
                                !.statistics.revenue = @ + r.duration]]

\* vacate_spot that counts a spot as freed before it looks at the spot
vacate_spot_counting(f, spot_id, now) ==
    LET i == SpotIndex(f, spot_id)
        g == [f EXCEPT !.available_spots = @ + 1]
    IN  IF i = 0 THEN [ret |-> Returned(None), facility |-> f]
        ELSE IF ~f.spots[i].occupied THEN [ret |-> Returned(None), facility |-> g]
        ELSE LET vehicle_id == f.spots[i].vehicle_id[1]
                 r == vacate(f.spots[i], now)
             IN  [ret |-> Returned(Some(r.duration)),
                  facility |->
                      [g EXCEPT !.spots[i] = r.spot,
                                !.vehicles = IF vehicle_id \in DOMAIN f.vehicles
                                             THEN DelKey(f.vehicles, vehicle_id)
                                             ELSE f.vehicles,
                                !.statistics.revenue = @ + r.duration]]

\* ParkingFacility.vacate_spot(spot_id), time.time() = now. The value returned
\* is None or duration / 60; it is kept as the duration in seconds (value * 60).
\* statistics.revenue is kept in units of 1/1800: hours * 2 = duration / 1800
vacate_spot(f, spot_id, now) ==
    LET i == SpotIndex(f, spot_id)
    IN  IF i = 0 \/ ~f.spots[i].occupied
        THEN [ret |-> Returned(None), facility |-> f]
        ELSE LET vehicle_id == f.spots[i].vehicle_id[1]
                 r == vacate(f.spots[i], now)
             IN  [ret |-> Returned(Some(r.duration)),
                  facility |->
                      [f EXCEPT !.spots[i] = r.spot,
                                !.vehicles = IF vehicle_id \in DOMAIN f.vehicles
                                             THEN DelKey(f.vehicles, vehicle_id)
                                             ELSE f.vehicles,
                                !.available_spots = @ + 1,
                                !.statistics.revenue = @ + r.duration]]


\* ParkingFacility.get_path_to_spot(start_location, spot_id). A node of the
\* graph is kept as the tuple (floor, x, y) the code formats into "floor-x-y"
\* and parses back; a location that formats into no key of self.graph raises
\* KeyError in _dijkstra
get_path_to_spot(f, start_location, spot_id) ==
    LET i == SpotIndex(f, spot_id)
        Coordinates(r) == IF r.raised # "" THEN r ELSE Returned(r.value[2])
    IN  IF i = 0 THEN Raised("KeyError")
        ELSE Coordinates(ShortestPath(f.layout, start_location, SpotNode(f.spots[i])))

RECURSIVE Pow20(_)
Pow20(k) == IF k = 0 THEN 1 ELSE 20 * Pow20(k - 1)

\* the update of statistics["avg_occupancy_rate"] that weighs the old value
\* and the sample equally
RollingAverage_even(avg, sample) == <<10 * avg[1] + 10 * sample * Pow20(avg[2]), avg[2] + 1>>

\* statistics["avg_occupancy_rate"] * 0.95 + occupancy_rate * 0.05. The average
\* is kept as the pair (n, k) of the exact value n / (total_spots * 20^k), k
\* the number of samples taken; sample is occupancy_rate * total_spots
RollingAverage(avg, sample) == <<19 * avg[1] + sample * Pow20(avg[2]), avg[2] + 1>>

\* ParkingFacility.get_occupancy_status(); occupancy_rate is kept as the pair
\* (numerator, denominator)
get_occupancy_status(f) ==
    LET occupied == f.total_spots - f.available_spots
        occupancy_rate == IF f.total_spots > 0 THEN <<occupied, f.total_spots>> ELSE <<0, 1>>
        after == [f EXCEPT !.statistics.avg_occupancy_rate =
                               RollingAverage(@, IF f.total_spots > 0 THEN occupied ELSE 0)]
        types == {f.spots[i].type : i \in DOMAIN f.spots}
    IN  [facility |-> after,
         ret |-> [total_spots |-> f.total_spots,
                  occupied_spots |-> occupied,
                  available_spots |-> f.available_spots,
                  occupancy_rate |-> occupancy_rate,
                  statistics |-> after.statistics,
                  by_type |-> [t \in types |->
                                  [total |-> Cardinality({i \in DOMAIN f.spots :
                                                            f.spots[i].type = t}),
                                   occupied |-> Cardinality({i \in DOMAIN f.spots :
                                                               /\ f.spots[i].type = t
                                                               /\ f.spots[i].occupied})]]]]
-----------------------------------------------------------------------------
\* ComparisonAlgorithms: the three strategies. Each result is the call's
\* outcome (the assignments dict: vehicle id -> spot id) and the facility
\* after the call

\* assignments[vehicle.id] = spot_id
SetKey(d, k, x) == (k :> x) @@ d

\* the list of the ids of the spots not occupied, the reserved ones included
AvailableSpotIdsAny(f) ==
    LET avail == SelectSeq([i \in DOMAIN f.spots |-> i], LAMBDA i : ~f.spots[i].occupied)
    IN  [k \in DOMAIN avail |-> f.spots[avail[k]].id]

\* the list of the ids of the spots neither occupied nor reserved
AvailableSpotIds(f) ==
    LET avail == AvailableIndexes(f)
    IN  [k \in DOMAIN avail |-> f.spots[avail[k]].id]

\* the loop of greedy_assignment: each vehicle pops the first remaining spot id
RECURSIVE GreedyLoop(_, _, _)
GreedyLoop(vs, available, assignments) ==
    IF vs = <<>> THEN assignments
    ELSE IF available # <<>>
         THEN GreedyLoop(Tail(vs), Tail(available),
                         SetKey(assignments, Head(vs).id, Head(available)))
         ELSE GreedyLoop(Tail(vs), available, assignments)

\* a greedy assignment that hands the available spots out a second time
greedy_assignment_repeating(f, vs) ==
    [ret |-> Returned(GreedyLoop(vs, AvailableSpotIds(f) \o AvailableSpotIds(f), << >>)),
     facility |-> f]

\* ComparisonAlgorithms.greedy_assignment(facility, vehicles)
greedy_assignment(f, vs) ==
    [ret |-> Returned(GreedyLoop(vs, AvailableSpotIds(f), << >>)), facility |-> f]

\* facility.spots[spot_id].reserve()
ReserveSpot(f, spot_id, now) ==
    LET i == SpotIndex(f, spot_id)
    IN  [f EXCEPT !.spots[i] = reserve(f.spots[i], now).spot]

\* a second loop that cancels the reservation of every spot of the facility
CancelEvery(f, assignments) ==
    [f EXCEPT !.spots = [i \in DOMAIN f.spots |-> cancel_reservation(f.spots[i]).spot]]

\* the second loop of nearest_spot_assignment:
\* for spot_id in assignments.values(): facility.spots[spot_id].cancel_reservation()
CancelAll(f, assignments) ==
    LET ids == {assignments[k] : k \in DOMAIN assignments}
    IN  [f EXCEPT !.spots = [i \in DOMAIN f.spots |->
                                IF f.spots[i].id \in ids
                                THEN cancel_reservation(f.spots[i]).spot
                                ELSE f.spots[i]]]

\* the first loop of nearest_spot_assignment; an exception leaves the loop with
\* the reservations made so far in place
RECURSIVE NearestLoop(_, _, _, _, _)
NearestLoop(f, vs, starting_pos, assignments, now) ==
    LET Resolved(found) ==
            IF found.raised # ""
            THEN [raised |-> found.raised, assignments |-> assignments, facility |-> f]
            ELSE IF found.value # None
                 THEN NearestLoop(ReserveSpot(f, found.value[1], now), Tail(vs), starting_pos,
                                  SetKey(assignments, Head(vs).id, found.value[1]), now)
                 ELSE NearestLoop(f, Tail(vs), starting_pos, assignments, now)
    IN  IF vs = <<>> THEN [raised |-> "", assignments |-> assignments, facility |-> f]
        ELSE Resolved(find_nearest_available_spot(f, Head(vs), Some(starting_pos)))

\* a strategy that takes the vehicles in an order that depends on the time of
\* the call
nearest_spot_assignment_timed(f, vs, now) ==
    LET batch == IF now % 2 = 1 THEN Reverse(vs) ELSE vs
        starting_pos == <<0, f.layout.entrances[1][1], f.layout.entrances[1][2]>>
        Cancelled(r) ==
            IF r.raised # ""
            THEN [ret |-> Raised(r.raised), facility |-> r.facility]
            ELSE [ret |-> Returned(r.assignments),
                  facility |-> CancelAll(r.facility, r.assignments)]
    IN  IF f.layout.entrances = <<>>
        THEN [ret |-> Raised("IndexError"), facility |-> f]
        ELSE Cancelled(NearestLoop(f, batch, starting_pos, << >>, now))

\* ComparisonAlgorithms.nearest_spot_assignment(facility, vehicles), starting_pos = None
nearest_spot_assignment(f, vs, now) ==
    LET starting_pos == <<0, f.layout.entrances[1][1], f.layout.entrances[1][2]>>
        Cancelled(r) ==
            IF r.raised # ""
            THEN [ret |-> Raised(r.raised), facility |-> r.facility]
            ELSE [ret |-> Returned(r.assignments),
                  facility |-> CancelAll(r.facility, r.assignments)]
    IN  IF f.layout.entrances = <<>>
        THEN [ret |-> Raised("IndexError"), facility |-> f]
        ELSE Cancelled(NearestLoop(f, vs, starting_pos, << >>, now))

\* a cost that adds the preference score to the distance
Cost10_adding(f, vehicle, spot, starting_pos) ==
    LET distance == ShortestPath(f.layout, starting_pos, SpotNode(spot)).value[1]
        preference_score == _compute_spot_preference_score(f.layout, spot, vehicle)
    IN  IF distance >= Infinity THEN Infinity
        ELSE Max2(1, 10 * distance + 2 * preference_score)

\* cost = max(0.1, distance - preference_score / 5), kept times ten
Cost10(f, vehicle, spot, starting_pos) ==
    LET distance == ShortestPath(f.layout, starting_pos, SpotNode(spot)).value[1]
        preference_score == _compute_spot_preference_score(f.layout, spot, vehicle)
    IN  IF distance >= Infinity THEN Infinity
        ELSE Max2(1, 10 * distance - 2 * preference_score)

\* the one-to-one maps of the rows 1..n into the columns 1..m (n <= m)
Matchings(n, m) == {a \in [1..n -> 1..m] : \A i, j \in 1..n : i # j => a[i] # a[j]}

RECURSIVE TotalCost(_, _, _)
TotalCost(cost, a, i) ==
    IF i = 0 THEN 0 ELSE Plus(cost[i][a[i]], TotalCost(cost, a, i - 1))

\* the least total cost of a matching, with the rows after the first left out
linear_sum_assignment_first_row(cost, n, m) ==
    LET all == Matchings(n, m)
        best == MinOver({TotalCost(cost, a, 1) : a \in all})
    IN  {a \in all : TotalCost(cost, a, 1) = best /\ best < Infinity}

\* scipy.optimize.linear_sum_assignment(cost_matrix): the matchings of least
\* total cost, every row matched; none when every matching costs infinity
\* (the solver raises ValueError)
linear_sum_assignment(cost, n, m) ==
    LET all == Matchings(n, m)
        best == MinOver({TotalCost(cost, a, n) : a \in all})
    IN  {a \in all : TotalCost(cost, a, n) = best /\ best < Infinity}

\* the vehicles and the candidate spots hungarian_assignment keeps
HungarianVehicles(f, vs) == Prefix(vs, Len(AvailableSpotIds(f)))

HungarianSpots(f, vs) ==
    LET available_spots == AvailableSpotIds(f)
        vehicles == HungarianVehicles(f, vs)
    IN  IF Len(available_spots) > Len(vehicles)
        THEN LET factor == Min2(2, Len(available_spots) \div Len(vehicles))
             IN  Prefix(available_spots, Len(vehicles) * factor)
        ELSE available_spots

\* the cost matrix of hungarian_assignment, times ten
CostMatrix(f, vs) ==
    LET vehicles == HungarianVehicles(f, vs)
        available_spots == HungarianSpots(f, vs)
        starting_pos == <<0, f.layout.entrances[1][1], f.layout.entrances[1][2]>>
    IN  [i \in DOMAIN vehicles |->
            [j \in DOMAIN available_spots |->
                Cost10(f, vehicles[i], SpotOf(f, available_spots[j]), starting_pos)]]

\* the assignments dict built from a matching: vehicles[i].id -> available_spots[j]
RECURSIVE PairsOf(_, _, _, _)
PairsOf(vehicles, available_spots, a, i) ==
    IF i > Len(vehicles) THEN << >>
    ELSE SetKey(PairsOf(vehicles, available_spots, a, i + 1),
                vehicles[i].id, available_spots[a[i]])

\* ComparisonAlgorithms.hungarian_assignment(facility, vehicles), starting_pos =
\* None: the set of the results the call can have, one per optimal matching
hungarian_assignment(f, vs) ==
    IF vs = <<>> \/ AvailableSpotIds(f) = <<>>
    THEN {[ret |-> Returned(<< >>), facility |-> f]}
    ELSE IF f.layout.entrances = <<>>
    THEN {[ret |-> Raised("IndexError"), facility |-> f]}
    ELSE LET vehicles == HungarianVehicles(f, vs)
             available_spots == HungarianSpots(f, vs)
             sols == linear_sum_assignment(CostMatrix(f, vs), Len(vehicles), Len(available_spots))
         IN  IF sols = {}
             THEN {[ret |-> Raised("ValueError"), facility |-> f]}
             ELSE {[ret |-> Returned(PairsOf(vehicles, available_spots, a, 1)), facility |-> f] :
                      a \in sols}

-----------------------------------------------------------------------------
\* ComparisonAlgorithms.compare_algorithms. A result is the record of one
\* strategy; an average is kept as the pair <<total, count>>

\* the values of end_time - start_time
ExecutionTimes == {0, 1}

\* the (name, algorithm) pairs of the default algorithms list
algorithms == <<"Greedy", "Nearest Spot", "Hungarian (Optimal)">>

\* algorithm(facility_copy, vehicles_copy): the outcomes of the call
Algorithm(name, f, vs, now) ==
    IF name = "Greedy" THEN {greedy_assignment(f, vs)}
    ELSE IF name = "Nearest Spot" THEN {nearest_spot_assignment(f, vs, now)}
    ELSE hungarian_assignment(f, vs)

\* a harness that hands each strategy a newly built facility of the same layout
facility_copy_rebuilt(f) == NewFacility(f.layout, [i \in DOMAIN f.spots |-> f.spots[i].type])

\* facility_copy = copy.deepcopy(facility): an object of its own, in the state
\* of facility
facility_copy(f) == f

\* vehicles_copy = copy.deepcopy(vehicles)
vehicles_copy(vs) == vs

\* the distance of a pair in the metrics: _dijkstra, or the Manhattan distance
\* when it raises
MetricDistance(f, starting_pos, spot) ==
    LET Measured(p) ==
            IF p.raised # ""
            THEN Abs(starting_pos[2] - spot.location[1]) + Abs(starting_pos[3] - spot.location[2])
            ELSE p.value[1]
    IN  Measured(ShortestPath(f.layout, starting_pos, SpotNode(spot)))

\* the loop over assignments.items(): total_distance and preference_satisfaction
RECURSIVE MetricTotals(_, _, _, _)
MetricTotals(f, vs, assignments, starting_pos) ==
    LET Added(vehicle, spot, rest) ==
            [total_distance |->
                 Plus(rest.total_distance, MetricDistance(f, starting_pos, spot)),
             preference_satisfaction |->
                 rest.preference_satisfaction
                     + _compute_spot_preference_score(f.layout, spot, vehicle)]
        Item(vehicle_id) ==
            Added(vs[CHOOSE k \in DOMAIN vs : vs[k].id = vehicle_id],
                  SpotOf(f, assignments[vehicle_id]),
                  MetricTotals(f, vs, DelKey(assignments, vehicle_id), starting_pos))
    IN  IF DOMAIN assignments = {}
        THEN [total_distance |-> 0, preference_satisfaction |-> 0]
        ELSE Item(CHOOSE v \in DOMAIN assignments : TRUE)

\* total / len(assignments) if assignments else 0
Average(total, count) == IF count = 0 THEN <<0, 1>> ELSE <<total, count>>

\* results[name] of a strategy that returned assignments on the copy g, the
\* execution time apart
ResultOf(g, vs, assignments, starting_pos) ==
    LET Stored(totals, count) ==
            [assignments |-> count,
             avg_distance |-> Average(totals.total_distance, count),
             avg_preference |-> Average(totals.preference_satisfaction, count)]
    IN  Stored(MetricTotals(g, vs, assignments, starting_pos), Cardinality(DOMAIN assignments))

\* the loop of compare_algorithms from the k-th algorithm: the outcomes, with
\* the caller's facility and batch after the call and, for each strategy run,
\* the copies it was given, what it returned and its copy of the facility after
RECURSIVE CompareLoop(_, _, _, _, _, _)
CompareLoop(f, vs, now, k, results, runs) ==
    LET name == algorithms[k]
        Ran(given, r) ==
            Append(runs, [name |-> name, given |-> given, ret |-> r.ret, after |-> r.facility])
        Measured(given, r) ==
            IF r.ret.raised # ""
            THEN {[ret |-> Raised(r.ret.raised), runs |-> Ran(given, r),
                   facility |-> f, vehicles |-> vs]}
            ELSE IF f.layout.entrances = <<>>
            THEN {[ret |-> Raised("IndexError"), runs |-> Ran(given, r),
                   facility |-> f, vehicles |-> vs]}
            ELSE CompareLoop(f, vs, now, k + 1,
                             SetKey(results, name,
                                    ResultOf(r.facility, given.vehicles, r.ret.value,
                                             <<0, f.layout.entrances[1][1],
                                               f.layout.entrances[1][2]>>)),
                             Ran(given, r))
        Copied(given) ==
            UNION {Measured(given, r) :
                      r \in Algorithm(name, given.facility, given.vehicles, now)}
    IN  IF k > Len(algorithms)
        THEN {[ret |-> Returned(results), runs |-> runs, facility |-> f, vehicles |-> vs]}
        ELSE Copied([facility |-> facility_copy(f), vehicles |-> vehicles_copy(vs)])

\* an outcome of the loop with "execution_time": end_time - start_time stored
\* in the result of the k-th strategy, times[k] being the time measured
Timed(c, times) ==
    IF c.ret.raised # "" THEN c
    ELSE [c EXCEPT !.ret.value =
             [n \in DOMAIN c.ret.value |->
                 [assignments |-> c.ret.value[n].assignments,
                  avg_distance |-> c.ret.value[n].avg_distance,
                  avg_preference |-> c.ret.value[n].avg_preference,
                  execution_time |->
                      times[CHOOSE k \in DOMAIN algorithms : algorithms[k] = n]]]]

\* ComparisonAlgorithms.compare_algorithms(facility, vehicles), algorithms =
\* None, time.time() = now: the outcomes of the call
compare_algorithms(f, vs, now) ==
    {Timed(c, times) : c \in CompareLoop(f, vs, now, 1, << >>, <<>>),
                       times \in [DOMAIN algorithms -> ExecutionTimes]}

-----------------------------------------------------------------------------
\* The callers' inputs

\* the minimum parking duration of a generated vehicle, in minutes
MinDuration == 15

\* the vehicle types and preference sets the callers' vehicles cycle through
VehicleKinds ==
    << <<"standard", {}>>, <<"handicap", {"near_entrance"}>>, <<"electric", {}>>,
       <<"standard", {"near_entrance"}>>, <<"handicap", {}>>, <<"electric", {"near_entrance"}>> >>

\* the Vehicle object with a given id, as first constructed
PoolVehicle(id) ==
    LET kind == VehicleKinds[((id - 1) % Len(VehicleKinds)) + 1]
    IN  Vehicle(id, kind[1], 0, MinDuration, kind[2])

\* the Vehicle object a caller passes: ids are unique, so a vehicle in the
\* facility is the object the live index holds
CallerVehicle(f, id) == IF id \in DOMAIN f.vehicles THEN f.vehicles[id] ELSE PoolVehicle(id)

VehicleIds == 1..MaxVehicles

\* the sequences of distinct vehicle ids
IdBatches ==
    {r \in UNION {[1..n -> VehicleIds] : n \in 0..MaxVehicles} :
        \A i, j \in DOMAIN r : i # j => r[i] # r[j]}

\* the ids of the vehicles that state no preference
PlainIds == {id \in 1..Len(VehicleKinds) : PoolVehicle(id).preferences = {}}

\* the sequences of distinct ids of vehicles that state no preference
PlainBatches ==
    {r \in UNION {[1..n -> PlainIds] : n \in 0..MaxVehicles} :
        \A i, j \in DOMAIN r : i # j => r[i] # r[j]}

\* the batch of the vehicles of the given ids
BatchOf(f, ids) == [k \in DOMAIN ids |-> CallerVehicle(f, ids[k])]

\* a spot id that is not in self.spots
BadSpotId(f) == <<0, f.total_spots + 1>>

\* the spot_id arguments of assign_vehicle_to_spot
SpotIdArgs(f) == {None} \cup {Some(id) : id \in SpotIds(f) \cup {BadSpotId(f)}}

\* the vehicle parked on the i-th spot before a strategy is called
ParkedVehicle(i) == Vehicle(100 + i, "standard", 0, MinDuration, {})

\* a facility some of whose spots were reserved (spot.reserve()) and some
\* assigned a vehicle (assign_vehicle_to_spot): status[i] says which
RECURSIVE Prepared(_, _, _)
Prepared(f, status, i) ==
    IF i > Len(f.spots) THEN f
    ELSE IF status[i] = "reserved"
         THEN Prepared(ReserveSpot(f, f.spots[i].id, 0), status, i + 1)
    ELSE IF status[i] = "occupied"
         THEN Prepared(assign_vehicle_to_spot(f, ParkedVehicle(i), Some(f.spots[i].id), 0).facility,
                       status, i + 1)
    ELSE Prepared(f, status, i + 1)

PreparedFacilities(l) ==
    {Prepared(f, status, 1) :
        f \in Facilities(l),
        status \in [1..Len(SpotCells(l)) -> {"available", "reserved", "occupied"}]}

\* the prepared facilities with at most one spot reserved or occupied
NearlyFree(l) ==
    {Prepared(f, status, 1) :
        f \in Facilities(l),
        status \in {st \in [1..Len(SpotCells(l)) -> {"available", "reserved", "occupied"}] :
                       Cardinality({i \in DOMAIN st : st[i] # "available"}) <= 1}}

-----------------------------------------------------------------------------
\* SmartParkingSimulator. Times are in minutes; the events list is the heapq
\* list, an event the tuple (time, type, data)

\* SmartParkingSimulator.__init__; self.facility is the variable facility,
\* time_of_day is kept in minutes (hours * 60)
SmartParkingSimulator ==
    [simulation_time |-> 0, vehicle_id_counter |-> 1, events |-> <<>>,
     arrival_rate |-> 5, is_running |-> FALSE, time_of_day |-> 9 * 60, day_of_week |-> 1]

\* spot ids as Python orders the strings "floor-n"
SpotIdLess(a, b) == a[1] < b[1] \/ (a[1] = b[1] /\ a[2] < b[2])

\* a < b on two event tuples: "lt", "ge", or "TypeError" when the comparison
\* reaches two Vehicle objects, which define no order
EventLt(a, b) ==
    IF a[1] # b[1] THEN (IF a[1] < b[1] THEN "lt" ELSE "ge")
    ELSE IF a[2] # b[2] THEN (IF a[2] = "arrival" THEN "lt" ELSE "ge")
    ELSE IF a[2] = "arrival" THEN (IF a[3] = b[3] THEN "ge" ELSE "TypeError")
    ELSE IF SpotIdLess(a[3], b[3]) THEN "lt" ELSE "ge"

\* heap[i], heap[j] = heap[j], heap[i] on positions counted from 0
Swap(heap, i, j) == [heap EXCEPT ![i + 1] = heap[j + 1], ![j + 1] = heap[i + 1]]

\* heapq._siftdown(heap, startpos, pos): the item at pos moves up while it is
\* less than its parent; a comparison that raises leaves the list as it is then
RECURSIVE _siftdown(_, _, _)
_siftdown(heap, startpos, pos) ==
    IF pos <= startpos THEN [raised |-> "", heap |-> heap]
    ELSE LET parentpos == (pos - 1) \div 2
             Compared(cmp) ==
                 IF cmp = "TypeError" THEN [raised |-> "TypeError", heap |-> heap]
                 ELSE IF cmp = "ge" THEN [raised |-> "", heap |-> heap]
                 ELSE _siftdown(Swap(heap, pos, parentpos), startpos, parentpos)
         IN  Compared(EventLt(heap[pos + 1], heap[parentpos + 1]))

\* the loop of heapq._siftup: the smaller child moves up until a leaf is hit
RECURSIVE SiftUpLoop(_, _)
SiftUpLoop(heap, pos) ==
    LET endpos == Len(heap)
        childpos == 2 * pos + 1
        Moved(smaller) == SiftUpLoop(Swap(heap, pos, smaller), smaller)
        Compared(cmp) ==
            IF cmp = "TypeError" THEN [raised |-> "TypeError", heap |-> heap, pos |-> pos]
            ELSE Moved(IF cmp = "lt" THEN childpos ELSE childpos + 1)
    IN  IF pos >= endpos \div 2 THEN [raised |-> "", heap |-> heap, pos |-> pos]
        ELSE Compared(IF childpos + 1 < endpos
                      THEN EventLt(heap[childpos + 1], heap[childpos + 2])
                      ELSE "lt")

\* heapq._siftup(heap, pos)
_siftup(heap, pos) ==
    LET Bubbled(r) ==
            IF r.raised # "" THEN [raised |-> r.raised, heap |-> r.heap]
            ELSE _siftdown(r.heap, pos, r.pos)
    IN  Bubbled(SiftUpLoop(heap, pos))

\* heapq.heappush(heap, item)
heappush(heap, item) == _siftdown(Append(heap, item), 0, Len(heap))

\* heapq.heappop(heap) on a list that is not empty: the item popped, or the
\* exception of a comparison, which loses the item
heappop(heap) ==
    LET lastelt == heap[Len(heap)]
        rest == SubSeq(heap, 1, Len(heap) - 1)
        Sifted(r) ==
            IF r.raised # "" THEN [raised |-> r.raised, heap |-> r.heap, item |-> None]
            ELSE [raised |-> "", heap |-> r.heap, item |-> Some(rest[1])]
    IN  IF rest = <<>> THEN [raised |-> "", heap |-> rest, item |-> Some(lastelt)]
        ELSE Sifted(_siftup([rest EXCEPT ![1] = lastelt], 0))

\* time_factors.get(hour, 0.5), times ten
TimeFactor10(hour) ==
    CASE hour = 6 -> 5 [] hour = 7 -> 10 [] hour = 8 -> 20 [] hour = 9 -> 15
      [] hour = 12 -> 12 [] hour = 13 -> 12
      [] hour = 16 -> 15 [] hour = 17 -> 20 [] hour = 18 -> 18 [] hour = 19 -> 10
      [] OTHER -> 5

\* SmartParkingSimulator._adjust_arrival_rate(), times a hundred
_adjust_arrival_rate(sim) ==
    LET hour == sim.time_of_day \div 60
        time_factor == TimeFactor10(hour)
        weekend_factor == IF sim.day_of_week \in {0, 6} THEN 6 ELSE 10
    IN  sim.arrival_rate * time_factor * weekend_factor

\* the outcomes of the random draws of one _schedule_next_arrival: the time
\* until the next arrival, the vehicle type, its duration and its preferences
Draws ==
    {[gap |-> g, type |-> k[1], duration |-> t, preferences |-> k[2]] :
        g \in {0, MinDuration}, t \in {MinDuration, 2 * MinDuration},
        k \in {<<"standard", {}>>, <<"handicap", {"near_entrance"}>>}}

\* the draws of a call: none once MaxGenerated vehicles were generated; the
\* kinds of vehicle drawn alternate from one vehicle to the next
ScheduleDraws(sim) ==
    IF sim.vehicle_id_counter > MaxGenerated THEN {}
    ELSE {d \in Draws : (d.type = "standard") <=> (sim.vehicle_id_counter % 2 = 1)}

\* a generator that leaves the arrival time of the vehicle at 0
_generate_random_vehicle_at_zero(sim, arrival_time, d) ==
    [vehicle |-> Vehicle(sim.vehicle_id_counter, d.type, 0, d.duration, d.preferences),
     simulator |-> [sim EXCEPT !.vehicle_id_counter = @ + 1]]

\* SmartParkingSimulator._generate_random_vehicle(arrival_time) under the draw d
_generate_random_vehicle(sim, arrival_time, d) ==
    [vehicle |-> Vehicle(sim.vehicle_id_counter, d.type, arrival_time, d.duration,
                         d.preferences),
     simulator |-> [sim EXCEPT !.vehicle_id_counter = @ + 1]]

\* a scheduler that draws the time until the next arrival whatever the rate
_schedule_next_arrival_regardless(sim, d) ==
    LET Pushed(g, h) == [raised |-> h.raised, simulator |-> [g.simulator EXCEPT !.events = h.heap]]
        Generated(arrival_time, g) ==
            Pushed(g, heappush(sim.events, <<arrival_time, "arrival", g.vehicle>>))
        Scheduled(arrival_time) ==
            Generated(arrival_time, _generate_random_vehicle(sim, arrival_time, d))
    IN  Scheduled(Plus(sim.simulation_time, d.gap))

\* SmartParkingSimulator._schedule_next_arrival() under the draw d
_schedule_next_arrival(sim, d) ==
    LET adjusted_rate == _adjust_arrival_rate(sim)
        time_until_next == IF adjusted_rate > 0 THEN d.gap ELSE Infinity
        Pushed(g, h) == [raised |-> h.raised, simulator |-> [g.simulator EXCEPT !.events = h.heap]]
        Generated(arrival_time, g) ==
            Pushed(g, heappush(sim.events, <<arrival_time, "arrival", g.vehicle>>))
        Scheduled(arrival_time) ==
            Generated(arrival_time, _generate_random_vehicle(sim, arrival_time, d))
    IN  Scheduled(Plus(sim.simulation_time, time_until_next))

\* an arrival that puts a vehicle that found no spot back in the queue
_process_vehicle_arrival_retrying(sim, f, vehicle, d, now) ==
    LET Scheduled(g, n) == [raised |-> n.raised, simulator |-> n.simulator, facility |-> g]
        NextArrival(s1, g) == Scheduled(g, _schedule_next_arrival(s1, d))
        Pushed(g, h) ==
            IF h.raised # ""
            THEN [raised |-> h.raised, simulator |-> [sim EXCEPT !.events = h.heap],
                  facility |-> g]
            ELSE NextArrival([sim EXCEPT !.events = h.heap], g)
        Assigned(a) ==
            IF a.ret.raised # ""
            THEN [raised |-> a.ret.raised, simulator |-> sim, facility |-> f]
            ELSE IF a.ret.value
            THEN Pushed(a.facility,
                        heappush(sim.events,
                                 <<Plus(sim.simulation_time, vehicle.expected_duration),
                                   "departure", a.vehicle.assigned_spot[1]>>))
            ELSE Pushed(f, heappush(sim.events,
                                    <<Plus(sim.simulation_time, Infinity), "arrival", vehicle>>))
    IN  Assigned(assign_vehicle_to_spot(f, vehicle, None, now))

\* SmartParkingSimulator._process_vehicle_arrival(vehicle) under the draw d,
\* time.time() = now
_process_vehicle_arrival(sim, f, vehicle, d, now) ==
    LET Scheduled(g, n) == [raised |-> n.raised, simulator |-> n.simulator, facility |-> g]
        NextArrival(s1, g) == Scheduled(g, _schedule_next_arrival(s1, d))
        Pushed(a, h) ==
            IF h.raised # ""
            THEN [raised |-> h.raised, simulator |-> [sim EXCEPT !.events = h.heap],
                  facility |-> a.facility]
            ELSE NextArrival([sim EXCEPT !.events = h.heap], a.facility)
        Departure(a, departure_time) ==
            Pushed(a, heappush(sim.events,
                               <<departure_time, "departure", a.vehicle.assigned_spot[1]>>))
        Assigned(a) ==
            IF a.ret.raised # ""
            THEN [raised |-> a.ret.raised, simulator |-> sim, facility |-> f]
            ELSE IF a.ret.value
            THEN Departure(a, Plus(sim.simulation_time, vehicle.expected_duration))
            ELSE NextArrival(sim, f)
    IN  Assigned(assign_vehicle_to_spot(f, vehicle, None, now))

\* SmartParkingSimulator._process_vehicle_departure(spot_id), time.time() = now
_process_vehicle_departure(sim, f, spot_id, now) ==
    [raised |-> "", simulator |-> sim, facility |-> vacate_spot(f, spot_id, now).facility]

\* the record of one pass of the loop of step_simulation: the event popped,
\* self.simulation_time when it is dispatched, the events list, the facility
\* and the vehicle id counter before and after its processing, and the
\* exception it raised
Dispatched(event, s1, f, r) ==
    [event |-> event, now |-> s1.simulation_time,
     before |-> [events |-> s1.events, facility |-> f,
                 vehicle_id_counter |-> s1.vehicle_id_counter],
     after |-> [events |-> r.simulator.events, facility |-> r.facility,
                vehicle_id_counter |-> r.simulator.vehicle_id_counter],
     raised |-> r.raised]

\* the while loop of step_simulation: the outcomes of processing the events
\* due by target_time, one for each sequence of draws; dispatched lists the
\* passes made so far
RECURSIVE StepLoop(_, _, _, _, _)
StepLoop(sim, f, target_time, now, dispatched) ==
    LET Processed(event, s1, r) ==
            IF r.raised # ""
            THEN {[raised |-> r.raised, simulator |-> r.simulator, facility |-> r.facility,
                   dispatched |-> Append(dispatched, Dispatched(event, s1, f, r))]}
            ELSE StepLoop(r.simulator, r.facility, target_time, now,
                          Append(dispatched, Dispatched(event, s1, f, r)))
        Dispatch(s1, event) ==
            IF event[2] = "arrival"
            THEN UNION {Processed(event, s1,
                                  _process_vehicle_arrival(s1, f, event[3], d, now)) :
                           d \in ScheduleDraws(s1)}
            ELSE Processed(event, s1, _process_vehicle_departure(s1, f, event[3], now))
        Popped(p) ==
            IF p.raised # ""
            THEN {[raised |-> p.raised, simulator |-> [sim EXCEPT !.events = p.heap],
                   facility |-> f, dispatched |-> dispatched]}
            ELSE Dispatch([sim EXCEPT !.events = p.heap, !.simulation_time = p.item[1][1]],
                          p.item[1])
    IN  IF sim.events = <<>> \/ sim.events[1][1] > target_time
        THEN {[raised |-> "", simulator |-> sim, facility |-> f, dispatched |-> dispatched]}
        ELSE Popped(heappop(sim.events))

\* a step that does not look at is_running
step_simulation_unguarded(sim, f, time_step, now) ==
    LET target_time == sim.simulation_time + time_step
    IN  {IF r.raised # "" THEN r
         ELSE [r EXCEPT !.simulator.simulation_time = target_time,
                        !.simulator.time_of_day = target_time % (24 * 60),
                        !.simulator.day_of_week = (target_time \div (24 * 60)) % 7] :
         r \in StepLoop(sim, f, target_time, now, <<>>)}

\* SmartParkingSimulator.step_simulation(time_step), time.time() = now: the
\* outcomes of the call
step_simulation(sim, f, time_step, now) ==
    IF ~sim.is_running
    THEN {[raised |-> "", simulator |-> sim, facility |-> f, dispatched |-> <<>>]}
    ELSE LET target_time == sim.simulation_time + time_step
         IN  {IF r.raised # "" THEN r
              ELSE [r EXCEPT !.simulator.simulation_time = target_time,
                             !.simulator.time_of_day = target_time % (24 * 60),
                             !.simulator.day_of_week = (target_time \div (24 * 60)) % 7] :
              r \in StepLoop(sim, f, target_time, now, <<>>)}

\* a start that keeps the logical time
start_simulation_resuming(sim, d) ==
    _schedule_next_arrival([sim EXCEPT !.is_running = TRUE], d)

\* SmartParkingSimulator.start_simulation() under the draw d; the facility exists
start_simulation(sim, d) ==
    _schedule_next_arrival([sim EXCEPT !.is_running = TRUE, !.simulation_time = 0], d)

\* a stop that also empties the queue
stop_simulation_clearing(sim) == [sim EXCEPT !.is_running = FALSE, !.events = <<>>]

\* SmartParkingSimulator.stop_simulation()
stop_simulation(sim) == [sim EXCEPT !.is_running = FALSE]

-----------------------------------------------------------------------------
\* Actions

\* the layouts of the facilities the facility and the spots are exercised on
SpecLayouts == {LayoutLine}

\* the layouts of the facilities assign and vacate are called on
FacilityLayouts == {LayoutLine, LayoutNoEntrance}

\* the layouts of the facilities the strategies are called on
StrategyLayouts == {LayoutLine, LayoutRow, LayoutNoEntrance, LayoutFarEntrance}

InitUnit ==
    /\ client = "unit"
    /\ facility \in UNION {Facilities(l) : l \in SpecLayouts}
    /\ clock = 0
    /\ last = [op |-> "init"]
    /\ simulator = SmartParkingSimulator

InitFacility ==
    /\ client = "facility"
    /\ facility \in UNION {Facilities(l) : l \in FacilityLayouts}
    /\ clock = 0
    /\ last = [op |-> "init"]
    /\ simulator = SmartParkingSimulator

InitStrategy ==
    /\ client = "strategy"
    /\ facility \in UNION {PreparedFacilities(l) : l \in StrategyLayouts}
    /\ clock = 0
    /\ last = [op |-> "init"]
    /\ simulator = SmartParkingSimulator

\* time passes between two calls
Tick ==
    /\ client \in {"unit", "facility", "simulation"}
    /\ clock < MaxClock
    /\ clock' = clock + 1
    /\ last' = [op |-> "tick"]
    /\ UNCHANGED <<client, facility, simulator>>

\* a direct call of ParkingSpot.occupy on the i-th spot
SpotOccupy(i, vehicle_id) ==
    LET r == occupy(facility.spots[i], vehicle_id, clock)
    IN  /\ client = "unit"
        /\ facility' = [facility EXCEPT !.spots[i] = r.spot]
        /\ last' = [op |-> "occupy", spot |-> i, ret |-> r.ret]
        /\ UNCHANGED <<client, clock, simulator>>

\* a direct call of ParkingSpot.vacate on the i-th spot
SpotVacate(i) ==
    LET r == vacate(facility.spots[i], clock)
    IN  /\ client = "unit"
        /\ facility' = [facility EXCEPT !.spots[i] = r.spot]
        /\ last' = [op |-> "vacate", spot |-> i, ret |-> r.ok]
        /\ UNCHANGED <<client, clock, simulator>>

\* a direct call of ParkingSpot.reserve on the i-th spot
SpotReserve(i) ==
    LET r == reserve(facility.spots[i], clock)
    IN  /\ client \in {"unit", "facility"}
        /\ facility' = [facility EXCEPT !.spots[i] = r.spot]
        /\ last' = [op |-> "reserve", spot |-> i, ret |-> r.ret]
        /\ UNCHANGED <<client, clock, simulator>>

\* a direct call of ParkingSpot.cancel_reservation on the i-th spot
SpotCancel(i) ==
    LET r == cancel_reservation(facility.spots[i])
    IN  /\ client \in {"unit", "facility"}
        /\ facility' = [facility EXCEPT !.spots[i] = r.spot]
        /\ last' = [op |-> "cancel_reservation", spot |-> i, ret |-> r.ret]
        /\ UNCHANGED <<client, clock, simulator>>

\* facility.assign_vehicle_to_spot(vehicle, spot_id)
AssignVehicle(id, spot_id) ==
    LET vehicle == CallerVehicle(facility, id)
        r == assign_vehicle_to_spot(facility, vehicle, spot_id, clock)
    IN  /\ client = "facility"
        /\ facility.statistics.total_vehicles < MaxServed
        /\ facility' = r.facility
        /\ last' = [op |-> "assign_vehicle_to_spot", vehicle |-> vehicle, spot_id |-> spot_id,
                    ret |-> r.ret, vehicle_after |-> r.vehicle,
                    before |-> [available_spots |-> facility.available_spots,
                                vehicles |-> facility.vehicles]]
        /\ UNCHANGED <<client, clock, simulator>>

\* facility.vacate_spot(spot_id)
VacateSpot(spot_id) ==
    LET r == vacate_spot(facility, spot_id, clock)
    IN  /\ client = "facility"
        /\ facility' = r.facility
        /\ last' = [op |-> "vacate_spot", spot_id |-> spot_id, ret |-> r.ret]
        /\ UNCHANGED <<client, clock, simulator>>

\* ComparisonAlgorithms.greedy_assignment(facility, vehicles)
GreedyCall(ids) ==
    LET r == greedy_assignment(facility, BatchOf(facility, ids))
    IN  /\ client = "strategy"
        /\ facility' = r.facility
        /\ last' = [op |-> "greedy_assignment", vehicles |-> ids, ret |-> r.ret]
        /\ client' = "returned"
        /\ UNCHANGED <<clock, simulator>>

\* ComparisonAlgorithms.nearest_spot_assignment(facility, vehicles)
NearestCall(ids) ==
    LET r == nearest_spot_assignment(facility, BatchOf(facility, ids), clock)
    IN  /\ client = "strategy"
        /\ facility' = r.facility
        /\ last' = [op |-> "nearest_spot_assignment", vehicles |-> ids, ret |-> r.ret]
        /\ client' = "returned"
        /\ UNCHANGED <<clock, simulator>>

\* ComparisonAlgorithms.hungarian_assignment(facility, vehicles)
HungarianCall(ids) ==
    /\ client = "strategy"
    /\ \E r \in hungarian_assignment(facility, BatchOf(facility, ids)) :
        /\ facility' = r.facility
        /\ last' = [op |-> "hungarian_assignment", vehicles |-> ids, ret |-> r.ret]
        /\ client' = "returned"
        /\ UNCHANGED <<clock, simulator>>

\* ComparisonAlgorithms.compare_algorithms(facility, vehicles)
CompareCall(ids) ==
    /\ client = "strategy"
    /\ \E r \in compare_algorithms(facility, BatchOf(facility, ids), clock) :
        /\ facility' = r.facility
        /\ last' = [op |-> "compare_algorithms", vehicles |-> ids, ret |-> r.ret,
                    runs |-> r.runs, vehicles_after |-> r.vehicles]
        /\ client' = "returned"
        /\ UNCHANGED <<clock, simulator>>

\* the layouts of the facilities the shortest-path query is called on
GraphLayouts == {LayoutLine, LayoutTwoFloor, LayoutNoEntrance, LayoutWide}

InitGraph ==
    /\ client = "query"
    /\ facility \in {NewFacility(l, [i \in 1..Len(SpotCells(l)) |-> "standard"]) : l \in GraphLayouts}
    /\ clock = 0
    /\ last = [op |-> "init"]
    /\ simulator = SmartParkingSimulator

\* a node id that is not in self.graph
BadNode(l) == <<0, Width(l), 0>>

\* facility._dijkstra(start, target)
DijkstraQuery(start, target) ==
    /\ client = "query"
    /\ last' = [op |-> "_dijkstra", start |-> start, target |-> target,
                ret |-> ShortestPath(facility.layout, start, target)]
    /\ client' = "returned"
    /\ UNCHANGED <<facility, clock, simulator>>

GraphNext ==
    \E start, target \in Nodes(facility.layout) \cup {BadNode(facility.layout)} :
        DijkstraQuery(start, target)

\* the shortest-path query on the graph of every layout
GraphSpec == InitGraph /\ [][GraphNext]_vars

\* the facilities find_nearest_available_spot is called on
InitNearest ==
    /\ client = "query"
    /\ facility \in PreparedFacilities(LayoutRow) \cup NearlyFree(LayoutWide)
                    \cup NearlyFree(LayoutTwoFloor) \cup PreparedFacilities(LayoutNoEntrance)
    /\ clock = 0
    /\ last = [op |-> "init"]
    /\ simulator = SmartParkingSimulator

\* the location arguments of find_nearest_available_spot
LocationArgs(l) == {None, Some(<<l.floors - 1, Width(l) - 1, Height(l) - 1>>)}

\* facility.find_nearest_available_spot(vehicle, location)
FindNearestQuery(kind, location) ==
    LET vehicle == Vehicle(1, kind[1], 0, MinDuration, kind[2])
    IN  /\ client = "query"
        /\ last' = [op |-> "find_nearest_available_spot", vehicle |-> vehicle,
                    location |-> location,
                    ret |-> find_nearest_available_spot(facility, vehicle, location)]
        /\ client' = "returned"
        /\ UNCHANGED <<facility, clock, simulator>>

NearestNext ==
    \E kind \in Range(VehicleKinds), location \in LocationArgs(facility.layout) :
        FindNearestQuery(kind, location)

\* find_nearest_available_spot on facilities with more spots than the top 5
NearestSpec == InitNearest /\ [][NearestNext]_vars

\* the layouts of the facilities the preference score is computed on
ScoreLayouts == {LayoutRow, LayoutNoEntrance, LayoutLong, LayoutTwoEntrances}

InitScore ==
    /\ client = "score"
    /\ facility \in UNION {Facilities(l) : l \in ScoreLayouts}
    /\ clock = 0
    /\ last = [op |-> "init"]
    /\ simulator = SmartParkingSimulator

\* facility._compute_spot_preference_score(spot, vehicle) on the i-th spot
ScoreQuery(i, kind) ==
    LET vehicle == Vehicle(1, kind[1], 0, MinDuration, kind[2])
    IN  /\ client = "score"
        /\ last' = [op |-> "_compute_spot_preference_score", spot |-> i, vehicle |-> vehicle,
                    ret |-> PreferenceScore(facility.layout, facility.spots[i], vehicle)]
        /\ client' = "returned"
        /\ UNCHANGED <<facility, clock, simulator>>

ScoreNext ==
    \E i \in DOMAIN facility.spots, kind \in Range(VehicleKinds) : ScoreQuery(i, kind)

\* the preference score of every spot for every kind of vehicle
ScoreSpec == InitScore /\ [][ScoreNext]_vars


\* the number of get_occupancy_status calls on one facility
MaxQueries == 2

\* the facilities the occupancy and path queries are called on
InitStatus ==
    /\ client = "status"
    /\ facility \in PreparedFacilities(LayoutRow) \cup PreparedFacilities(LayoutNoEntrance)
    /\ clock = 0
    /\ last = [op |-> "init"]
    /\ simulator = SmartParkingSimulator

\* facility.get_occupancy_status()
StatusQuery ==
    LET r == get_occupancy_status(facility)
    IN  /\ client = "status"
        /\ facility.statistics.avg_occupancy_rate[2] < MaxQueries
        /\ facility' = r.facility
        /\ last' = [op |-> "get_occupancy_status", ret |-> r.ret]
        /\ UNCHANGED <<client, clock, simulator>>

\* facility.get_path_to_spot(start_location, spot_id)
PathQuery(start_location, spot_id) ==
    /\ client = "status"
    /\ last' = [op |-> "get_path_to_spot", start_location |-> start_location,
                spot_id |-> spot_id,
                ret |-> get_path_to_spot(facility, start_location, spot_id)]
    /\ UNCHANGED <<client, facility, clock, simulator>>

InitQuery == InitStatus \/ InitGraph

QueryNext ==
    \/ StatusQuery
    \/ \E start_location \in Nodes(facility.layout) \cup {BadNode(facility.layout)},
          spot_id \in SpotIds(facility) \cup {BadSpotId(facility)} :
          PathQuery(start_location, spot_id)
    \/ GraphNext

\* the queries of the facility: occupancy status, path to a spot, shortest path
QuerySpec == InitQuery /\ [][QueryNext]_vars
\* the layouts of the facilities of the simulator
SimulationLayouts == {LayoutLineStandard, LayoutOneSpot, LayoutNoEntranceStandard}

\* simulator.create_facility(layout=layout) on a new simulator
InitSimulation ==
    /\ client = "simulation"
    /\ facility \in UNION {Facilities(l) : l \in SimulationLayouts}
    /\ clock = 0
    /\ last = [op |-> "init"]
    /\ simulator = SmartParkingSimulator

\* simulator.start_simulation()
StartSimulation(d) ==
    LET r == start_simulation(simulator, d)
    IN  /\ client = "simulation"
        /\ simulator' = r.simulator
        /\ last' = [op |-> "start_simulation", raised |-> r.raised]
        /\ UNCHANGED <<client, facility, clock>>

\* simulator.stop_simulation()
StopSimulation ==
    /\ client = "simulation"
    /\ simulator' = stop_simulation(simulator)
    /\ last' = [op |-> "stop_simulation", raised |-> ""]
    /\ UNCHANGED <<client, facility, clock>>

\* the time_step arguments of step_simulation
TimeSteps == {MinDuration, 2 * MinDuration}

\* simulator.step_simulation(time_step)
StepSimulation(time_step) ==
    /\ client = "simulation"
    /\ simulator.simulation_time + time_step <= MaxSteps * MinDuration
    /\ \E r \in step_simulation(simulator, facility, time_step, clock) :
        /\ simulator' = r.simulator
        /\ facility' = r.facility
        /\ last' = [op |-> "step_simulation", time_step |-> time_step, raised |-> r.raised,
                    dispatched |-> r.dispatched]
        /\ UNCHANGED <<client, clock>>

\* the arrival rates the user sets
ArrivalRates == {0, 5}

\* a change of arrival rate that also puts off the arrivals in the queue when
\* the rate becomes 0
SetArrivalRate_rescheduling(rate) ==
    /\ client = "simulation"
    /\ simulator' = [simulator EXCEPT
                        !.arrival_rate = rate,
                        !.events = [k \in DOMAIN simulator.events |->
                                       IF rate = 0 /\ simulator.events[k][2] = "arrival"
                                       THEN <<Infinity, "arrival", simulator.events[k][3]>>
                                       ELSE simulator.events[k]]]
    /\ last' = [op |-> "on_arrival_change", raised |-> ""]
    /\ UNCHANGED <<client, facility, clock>>

\* ParkingSimulatorGUI.on_arrival_change: simulator.arrival_rate = rate
SetArrivalRate(rate) ==
    /\ client = "simulation"
    /\ simulator' = [simulator EXCEPT !.arrival_rate = rate]
    /\ last' = [op |-> "on_arrival_change", raised |-> ""]
    /\ UNCHANGED <<client, facility, clock>>

SimulationNext ==
    \/ Tick
    \/ \E d \in ScheduleDraws(simulator) : StartSimulation(d)
    \/ StopSimulation
    \/ \E time_step \in TimeSteps : StepSimulation(time_step)
    \/ \E rate \in ArrivalRates : SetArrivalRate(rate)

\* the simulator under its user: start, stop, step, a change of arrival rate
SimulationSpec == InitSimulation /\ [][SimulationNext]_vars


UnitNext ==
    \/ \E i \in DOMAIN facility.spots, id \in VehicleIds : SpotOccupy(i, id)
    \/ \E i \in DOMAIN facility.spots : SpotVacate(i)

FacilityNext ==
    \/ Tick
    \/ \E i \in DOMAIN facility.spots : SpotReserve(i)
    \/ \E i \in DOMAIN facility.spots : SpotCancel(i)
    \/ \E id \in VehicleIds, spot_id \in SpotIdArgs(facility) : AssignVehicle(id, spot_id)
    \/ \E spot_id \in SpotIds(facility) \cup {BadSpotId(facility)} : VacateSpot(spot_id)

StrategyNext ==
    \/ \E ids \in IdBatches : GreedyCall(ids)
    \/ \E ids \in IdBatches \cup PlainBatches : NearestCall(ids)
    \/ \E ids \in IdBatches : HungarianCall(ids)
    \/ \E ids \in IdBatches : CompareCall(ids)


InitService == InitFacility \/ InitSimulation

ServiceNext == FacilityNext \/ SimulationNext

\* the facility under all that writes its counters: its callers and the
\* simulator
ServiceSpec == InitService /\ [][ServiceNext]_vars
\* the facility under its callers: assign, vacate, reservations, time
FacilitySpec == InitFacility /\ [][FacilityNext]_vars

\* the strategies, called on facilities with every combination of spot states
StrategySpec == InitStrategy /\ [][StrategyNext]_vars

\* the callers that change the state of a spot: direct calls, the facility's
\* callers and the simulator
InitSpots == InitUnit \/ InitFacility \/ InitSimulation

SpotsNext == UnitNext \/ FacilityNext \/ SimulationNext

SpotsSpec == InitSpots /\ [][SpotsNext]_vars

Init == InitUnit \/ InitFacility \/ InitStrategy \/ InitSimulation

Next == UnitNext \/ FacilityNext \/ StrategyNext \/ SimulationNext

Spec == Init /\ [][Next]_vars

-----------------------------------------------------------------------------
\* Shortest path: claims

\* breadth-first distance: the least number of edges on a path from the nodes
\* of frontier (at distance d from the start) to target, Infinity when none
RECURSIVE BreadthFirst(_, _, _, _, _)
BreadthFirst(graph, frontier, seen, target, d) ==
    IF target \in frontier THEN d
    ELSE IF frontier = {} THEN Infinity
    ELSE LET next == UNION {Range(graph[n]) : n \in frontier} \ seen
         IN  BreadthFirst(graph, next, seen \cup next, target, d + 1)

BFSDistance(l, start, target) ==
    BreadthFirst(_build_navigation_graph(l), {start}, {start}, target, 0)

\* the last call was _dijkstra between two nodes of the graph
DijkstraReturned ==
    /\ last.op = "_dijkstra"
    /\ last.start \in Nodes(facility.layout)
    /\ last.target \in Nodes(facility.layout)

\* a list of nodes that walks along edges of the graph
IsWalk(l, path) ==
    \A k \in 1..(Len(path) - 1) : path[k + 1] \in Range(_build_navigation_graph(l)[path[k]])

\* C8: for a target reachable from start, _dijkstra returns the breadth-first
\* distance and a path from start to target along edges of the graph with
\* distance + 1 nodes
C8_ShortestPathIsBreadthFirst ==
    (DijkstraReturned /\ BFSDistance(facility.layout, last.start, last.target) < Infinity) =>
        /\ last.ret.raised = ""
        /\ LET distance == last.ret.value[1]
               path == last.ret.value[2]
           IN  /\ distance = BFSDistance(facility.layout, last.start, last.target)
               /\ Len(path) = distance + 1
               /\ path[1] = last.start
               /\ path[Len(path)] = last.target
               /\ IsWalk(facility.layout, path)

\* a query between two floors joined at the entrance returned a path longer than one edge
C8_Witness ==
    /\ DijkstraReturned
    /\ last.start[1] # last.target[1]
    /\ last.ret.raised = ""
    /\ last.ret.value[1] >= 3
    /\ last.ret.value[1] < Infinity

\* the target of the last _dijkstra call cannot be reached from its start
UnreachableQuery ==
    /\ DijkstraReturned
    /\ BFSDistance(facility.layout, last.start, last.target) >= Infinity

\* C9: for a target that cannot be reached from start, _dijkstra returns
\* infinite distance and an empty path, and does not raise
C9_UnreachableIsInfinityAndEmptyPath ==
    UnreachableQuery =>
        /\ last.ret.raised = ""
        /\ last.ret.value[1] = Infinity
        /\ last.ret.value[2] = <<>>

-----------------------------------------------------------------------------
\* Nearest available spot: claims

\* the last call was find_nearest_available_spot
NearestReturned == last.op = "find_nearest_available_spot"

\* the node the search of the last call starts from
NearestStart ==
    IF last.location = None
    THEN <<0, facility.layout.entrances[1][1], facility.layout.entrances[1][2]>>
    ELSE last.location[1]

\* the spots that are neither occupied nor reserved
FreeSpots == {i \in DOMAIN facility.spots : get_status(facility.spots[i]) = "available"}

ScoreOf(i) == _compute_spot_preference_score(facility.layout, facility.spots[i], last.vehicle)

DistanceOf(i) == BFSDistance(facility.layout, NearestStart, SpotNode(facility.spots[i]))

\* i comes before j when it scores higher, or equally and is enumerated first
Before(i, j) == ScoreOf(i) > ScoreOf(j) \/ (ScoreOf(i) = ScoreOf(j) /\ i < j)

\* the 5 free spots of highest score
TopFive == {i \in FreeSpots : Cardinality({j \in FreeSpots : Before(j, i)}) < 5}

\* C10: find_nearest_available_spot returns None when no spot is free, and
\* otherwise, among the 5 free spots of highest score (ties kept in the order
\* of the spots), the one of least distance from the start, the highest
\* scoring one among those at that distance
C10_NearestAmongTopFive ==
    NearestReturned =>
        /\ last.ret.raised = ""
        /\ FreeSpots = {} => last.ret.value = None
        /\ FreeSpots # {} =>
              \E i \in TopFive :
                  /\ last.ret.value = Some(facility.spots[i].id)
                  /\ \A j \in TopFive : DistanceOf(i) <= DistanceOf(j)
                  /\ \A j \in TopFive : (j # i /\ DistanceOf(j) = DistanceOf(i)) => Before(i, j)

-----------------------------------------------------------------------------
\* assign_vehicle_to_spot and vacate_spot: claims

\* the step is a call of assign_vehicle_to_spot
AssignStep == last'.op = "assign_vehicle_to_spot"

\* the step is a call of vacate_spot
VacateStep == last'.op = "vacate_spot"

\* the call of AssignStep names no spot, a spot that does not exist or one
\* that is occupied or reserved, or names none and none can be resolved
AssignRefused ==
    LET spot_id == last'.spot_id
    IN  IF spot_id = None
        THEN FreeSpots = {} \/ facility.layout.entrances = <<>>
        ELSE \/ SpotIndex(facility, spot_id[1]) = 0
             \/ get_status(SpotOf(facility, spot_id[1])) # "available"

\* C4: assign_vehicle_to_spot returns False, raises nothing and changes
\* neither the facility nor the vehicle when the spot given does not exist or
\* is occupied or reserved, or when none is given and none can be resolved
C4_RefusedAssignChangesNothing ==
    [][(AssignStep /\ AssignRefused) =>
          /\ last'.ret = Returned(FALSE)
          /\ facility' = facility
          /\ last'.vehicle_after = last'.vehicle]_vars

\* C5: a successful assign_vehicle_to_spot occupies one available spot (the
\* one given, if one is given) with the vehicle's id and the time of the call,
\* sets the vehicle's assigned_spot, registers the vehicle, takes one from the
\* available counter, adds one to total_vehicles and changes nothing else
C5_AssignEffects ==
    [][(AssignStep /\ last'.ret = Returned(TRUE)) =>
          \E i \in FreeSpots :
              LET spot == facility.spots[i]
                  vehicle == last'.vehicle
              IN  /\ last'.spot_id # None => last'.spot_id = Some(spot.id)
                  /\ facility'.spots[i] = [id |-> spot.id, location |-> spot.location,
                                           type |-> spot.type, floor |-> spot.floor,
                                           occupied |-> TRUE, reserved |-> FALSE,
                                           vehicle_id |-> Some(vehicle.id),
                                           occupied_since |-> Some(clock),
                                           reserved_until |-> spot.reserved_until]
                  /\ \A j \in DOMAIN facility.spots \ {i} : facility'.spots[j] = facility.spots[j]
                  /\ DOMAIN facility'.spots = DOMAIN facility.spots
                  /\ last'.vehicle_after.assigned_spot = Some(spot.id)
                  /\ DOMAIN facility'.vehicles = DOMAIN facility.vehicles \cup {vehicle.id}
                  /\ facility'.vehicles[vehicle.id] = last'.vehicle_after
                  /\ \A k \in DOMAIN facility.vehicles \ {vehicle.id} :
                        facility'.vehicles[k] = facility.vehicles[k]
                  /\ facility'.available_spots = facility.available_spots - 1
                  /\ facility'.statistics.total_vehicles = facility.statistics.total_vehicles + 1
                  /\ facility'.statistics.revenue = facility.statistics.revenue
                  /\ facility'.total_spots = facility.total_spots
                  /\ facility'.layout = facility.layout]_vars

\* a vehicle was assigned the spot find_nearest_available_spot resolved while
\* another spot is occupied
C5_Witness ==
    /\ last.op = "assign_vehicle_to_spot"
    /\ last.ret = Returned(TRUE)
    /\ last.spot_id = None
    /\ facility.available_spots = facility.total_spots - 2

\* C6: vacate_spot returns None and changes nothing when the spot does not
\* exist or is not occupied, a spot that is only reserved included
C6_RefusedVacateChangesNothing ==
    [][(VacateStep /\ (\/ SpotIndex(facility, last'.spot_id) = 0
                       \/ ~SpotOf(facility, last'.spot_id).occupied)) =>
          /\ last'.ret = Returned(None)
          /\ facility' = facility]_vars

\* vacate_spot was called on a spot that is reserved and returned None
C6_Witness ==
    /\ last.op = "vacate_spot"
    /\ last.ret = Returned(None)
    /\ SpotIndex(facility, last.spot_id) # 0
    /\ SpotOf(facility, last.spot_id).reserved

\* C7: vacate_spot(s) right after a successful assign_vehicle_to_spot(v, s)
\* returns a duration that is not negative, leaves s available with no
\* occupant and no occupied_since, and leaves the available counter and the
\* live-vehicle index as they were before the assign
C7_AssignVacateRoundTrip ==
    [][(/\ last.op = "assign_vehicle_to_spot"
        /\ last.ret = Returned(TRUE)
        /\ VacateStep
        /\ last.vehicle_after.assigned_spot = Some(last'.spot_id)) =>
          /\ last'.ret.raised = ""
          /\ last'.ret.value # None
          /\ last'.ret.value[1] >= 0
          /\ LET spot == SpotOf(facility', last'.spot_id)
             IN  /\ get_status(spot) = "available"
                 /\ spot.vehicle_id = None
                 /\ spot.occupied_since = None
          /\ facility'.available_spots = last.before.available_spots
          /\ facility'.vehicles = last.before.vehicles]_vars

-----------------------------------------------------------------------------
\* The strategies: claims

StrategyNames == {"greedy_assignment", "nearest_spot_assignment", "hungarian_assignment"}

\* the step is a call of a strategy that returns its assignments
StrategyReturns == last'.op \in StrategyNames /\ last'.ret.raised = ""

\* C2: the assignments a strategy returns give no spot to two vehicles, and
\* every spot they give was neither occupied nor reserved when the strategy
\* was called
C2_AssignmentsOneToOne ==
    [][StrategyReturns =>
          LET assignments == last'.ret.value
          IN  /\ \A v, w \in DOMAIN assignments :
                    v # w => assignments[v] # assignments[w]
              /\ \A v \in DOMAIN assignments :
                    /\ SpotIndex(facility, assignments[v]) # 0
                    /\ get_status(SpotOf(facility, assignments[v])) = "available"]_vars

\* hungarian_assignment returned two assignments on a facility with a spot
\* that is reserved
C2_Witness ==
    /\ last.op = "hungarian_assignment"
    /\ last.ret.raised = ""
    /\ Cardinality(DOMAIN last.ret.value) = 2
    /\ \E i \in DOMAIN facility.spots : facility.spots[i].reserved

HungarianReturns == last'.op = "hungarian_assignment" /\ last'.ret.raised = ""

\* max(0.1, distance(entrance, spot) - score(spot, vehicle) / 5), times ten
PairCost10(f, vehicle, spot_id) ==
    LET spot == SpotOf(f, spot_id)
        entrance == <<0, f.layout.entrances[1][1], f.layout.entrances[1][2]>>
        distance == BFSDistance(f.layout, entrance, SpotNode(spot))
        score == _compute_spot_preference_score(f.layout, spot, vehicle)
    IN  IF distance >= Infinity THEN Infinity
        ELSE Max2(1, 10 * distance - 2 * score)

\* the sum of the costs of the pairs of a mapping, over the vehicles vs[k..]
RECURSIVE MappingCost10(_, _, _, _)
MappingCost10(f, vs, m, k) ==
    IF k > Len(vs) THEN 0
    ELSE Plus(IF vs[k].id \in DOMAIN m THEN PairCost10(f, vs[k], m[vs[k].id]) ELSE 0,
              MappingCost10(f, vs, m, k + 1))

\* the candidate spots of hungarian_assignment for a batch that is not empty
CandidateSpots(f, vs) ==
    IF AvailableSpotIds(f) = <<>> THEN {} ELSE Range(HungarianSpots(f, vs))

\* the one-to-one mappings of the vehicles of ids V into the spots S
OneToOne(V, S) == {m \in [V -> S] : \A v, w \in V : v # w => m[v] # m[w]}

\* C12: the pairs hungarian_assignment returns lie in its candidate spots and
\* their total cost is at most the total cost of every other one-to-one
\* mapping of the same vehicles into the candidate spots
C12_HungarianOptimal ==
    [][HungarianReturns /\ last'.vehicles # <<>> =>
          LET vs == BatchOf(facility, last'.vehicles)
              assignments == last'.ret.value
              candidates == CandidateSpots(facility, vs)
          IN  /\ \A v \in DOMAIN assignments : assignments[v] \in candidates
              /\ \A m \in OneToOne(DOMAIN assignments, candidates) :
                    MappingCost10(facility, vs, assignments, 1)
                        <= MappingCost10(facility, vs, m, 1)]_vars

\* hungarian_assignment returned two pairs whose total cost is less than the
\* cost of the same two spots given the other way round
C12_Witness ==
    /\ last.op = "hungarian_assignment"
    /\ last.ret.raised = ""
    /\ Len(last.vehicles) = 2
    /\ DOMAIN last.ret.value = Range(last.vehicles)
    /\ LET vs == BatchOf(facility, last.vehicles)
           a == last.ret.value
           swapped == [v \in DOMAIN a |-> a[CHOOSE w \in DOMAIN a : w # v]]
       IN  MappingCost10(facility, vs, a, 1) < MappingCost10(facility, vs, swapped, 1)

\* the total cost of the mapping hungarian_assignment returned in the step
HungarianTotal10 ==
    MappingCost10(facility, BatchOf(facility, last'.vehicles), last'.ret.value, 1)

\* the total cost of the mapping greedy_assignment returns on the same
\* facility and batch
GreedyTotal10 ==
    LET vs == BatchOf(facility, last'.vehicles)
    IN  MappingCost10(facility, vs, greedy_assignment(facility, vs).ret.value, 1)

\* the outcome of nearest_spot_assignment on the same facility and batch
NearestOutcome ==
    nearest_spot_assignment(facility, BatchOf(facility, last'.vehicles), clock).ret

NearestTotal10 ==
    MappingCost10(facility, BatchOf(facility, last'.vehicles), NearestOutcome.value, 1)

\* C13 as stated: on any facility and batch the total cost of the mapping of
\* hungarian_assignment is at most the total cost of the mapping of
\* greedy_assignment and of the mapping of nearest_spot_assignment
C13_HungarianLeastOfStrategies ==
    [][HungarianReturns /\ last'.vehicles # <<>> =>
          /\ HungarianTotal10 <= GreedyTotal10
          /\ NearestOutcome.raised = "" => HungarianTotal10 <= NearestTotal10]_vars

\* C13 amended: the total cost of the mapping of hungarian_assignment is at
\* most that of greedy_assignment, and at most that of
\* nearest_spot_assignment whenever nearest_spot_assignment gives the same
\* vehicles spots of the candidate set of hungarian_assignment
C13_HungarianLeastOnCandidates ==
    [][HungarianReturns /\ last'.vehicles # <<>> =>
          LET vs == BatchOf(facility, last'.vehicles)
              nearest == NearestOutcome
          IN  /\ HungarianTotal10 <= GreedyTotal10
              /\ (/\ nearest.raised = ""
                  /\ DOMAIN nearest.value = DOMAIN last'.ret.value
                  /\ \A v \in DOMAIN nearest.value :
                        nearest.value[v] \in CandidateSpots(facility, vs))
                 => HungarianTotal10 <= NearestTotal10]_vars

\* hungarian_assignment returned a mapping that costs less than the mapping
\* of greedy_assignment and less than the mapping of nearest_spot_assignment,
\* which gives the same vehicles spots of the same candidate set
C13_Witness ==
    /\ last.op = "hungarian_assignment"
    /\ last.ret.raised = ""
    /\ last.vehicles # <<>>
    /\ LET vs == BatchOf(facility, last.vehicles)
           total == MappingCost10(facility, vs, last.ret.value, 1)
           greedy == greedy_assignment(facility, vs).ret.value
           nearest == nearest_spot_assignment(facility, vs, clock).ret
       IN  /\ total < MappingCost10(facility, vs, greedy, 1)
           /\ nearest.raised = ""
           /\ DOMAIN nearest.value = DOMAIN last.ret.value
           /\ \A v \in DOMAIN nearest.value : nearest.value[v] \in CandidateSpots(facility, vs)
           /\ total < MappingCost10(facility, vs, nearest.value, 1)

\* the number of spots neither occupied nor reserved
AvailableCount(f) ==
    Cardinality({i \in DOMAIN f.spots : get_status(f.spots[i]) = "available"})

\* the batches with the same vehicles as ids, in every order
BatchOrders(ids) == {p \in IdBatches : Len(p) = Len(ids) /\ Range(p) = Range(ids)}

\* C11: greedy_assignment returns exactly min(|vehicles|, |spots available and
\* unreserved at the call|) assignments, and the same number for every
\* permutation of the batch
C11_GreedyCount ==
    [][last'.op = "greedy_assignment" =>
          LET count == Min2(Len(last'.vehicles), AvailableCount(facility))
          IN  /\ last'.ret.raised = ""
              /\ Cardinality(DOMAIN last'.ret.value) = count
              /\ \A p \in BatchOrders(last'.vehicles) :
                    LET r == greedy_assignment(facility, BatchOf(facility, p))
                    IN  r.ret.raised = "" /\ Cardinality(DOMAIN r.ret.value) = count]_vars

\* greedy_assignment was called with two vehicles on a facility with one spot
\* available and one reserved, and assigned one
C11_Witness ==
    /\ last.op = "greedy_assignment"
    /\ Len(last.vehicles) = 2
    /\ Cardinality(DOMAIN last.ret.value) = 1
    /\ AvailableCount(facility) = 1
    /\ \E i \in DOMAIN facility.spots : facility.spots[i].reserved

\* the step is a call of compare_algorithms
CompareStep == last'.op = "compare_algorithms"

\* C22: compare_algorithms leaves the caller's facility and vehicle batch as
\* they were at the call, and every strategy it runs is given a copy of the
\* facility and of the batch in the state the caller's had at the call,
\* whatever the strategies run before it did; when it returns it has run the
\* three strategies
C22_CompareIsolates ==
    [][CompareStep =>
          LET vs == BatchOf(facility, last'.vehicles)
              runs == last'.runs
          IN  /\ facility' = facility
              /\ last'.vehicles_after = vs
              /\ \A k \in DOMAIN runs :
                    /\ runs[k].given.facility = facility
                    /\ runs[k].given.vehicles = vs
              /\ last'.ret.raised = "" =>
                    /\ [k \in DOMAIN runs |-> runs[k].name] = algorithms
                    /\ DOMAIN last'.ret.value = Range(algorithms)]_vars

\* compare_algorithms returned on a facility with a spot occupied, after
\* nearest_spot_assignment had reserved two spots of its copy
C22_Witness ==
    /\ last.op = "compare_algorithms"
    /\ last.ret.raised = ""
    /\ Cardinality(DOMAIN last.runs[2].ret.value) = 2
    /\ \E i \in DOMAIN facility.spots : facility.spots[i].occupied

\* the results of a comparison without the execution times
Metrics(results) ==
    [n \in DOMAIN results |->
        [assignments |-> results[n].assignments,
         avg_distance |-> results[n].avg_distance,
         avg_preference |-> results[n].avg_preference]]

\* the cost matrix a run of hungarian_assignment hands the solver, << >> when
\* it returns or raises before it builds one
SolverInput(run) ==
    IF \/ run.given.vehicles = <<>>
       \/ AvailableSpotIds(run.given.facility) = <<>>
       \/ run.given.facility.layout.entrances = <<>>
    THEN << >>
    ELSE CostMatrix(run.given.facility, run.given.vehicles)

\* the runs of the comparison on a second copy of the facility and the batch,
\* at any time of the clock, before the execution times are stored
SecondRuns ==
    UNION {CompareLoop(facility, BatchOf(facility, last'.vehicles), now, 1, << >>, <<>>) :
              now \in 0..MaxClock}

EmptyInput ==
    /\ last'.op \in StrategyNames \cup {"compare_algorithms"}
    /\ last'.vehicles = <<>> \/ AvailableCount(facility) = 0

\* C25: on an empty batch or a facility with no spot available and
\* unreserved, each strategy returns the empty mapping, raises nothing and
\* leaves the facility as it was, and compare_algorithms returns, for each
\* strategy, assignments = 0, avg_distance = 0 and avg_preference = 0
C25_EmptyInputEmptyMapping ==
    [][EmptyInput =>
          /\ last'.ret.raised = ""
          /\ facility' = facility
          /\ last'.op \in StrategyNames => last'.ret.value = << >>
          /\ last'.op = "compare_algorithms" =>
                /\ DOMAIN last'.ret.value = Range(algorithms)
                /\ \A n \in DOMAIN last'.ret.value :
                      /\ last'.ret.value[n].assignments = 0
                      /\ last'.ret.value[n].avg_distance[1] = 0
                      /\ last'.ret.value[n].avg_preference[1] = 0]_vars

\* the bounds of the problem hungarian_assignment solves for the batch vs: its
\* candidate spots are available spots, at most min(|available|, 2 * |vs|) of
\* them, and its vehicles are the first |available| vehicles of the batch
HungarianBounded(f, vs) ==
    LET available == AvailableSpotIds(f)
        candidates == HungarianSpots(f, vs)
        participants == HungarianVehicles(f, vs)
    IN  /\ Range(candidates) \subseteq Range(available)
        /\ \A i, j \in DOMAIN candidates : i # j => candidates[i] # candidates[j]
        /\ Len(candidates) <= Min2(Len(available), 2 * Len(vs))
        /\ participants = Prefix(vs, Len(available))
        /\ Len(vs) > Len(available) => Len(participants) = Len(available)

\* C29: hungarian_assignment takes its candidate spots from the available
\* spots, at most min(|available|, 2 * |vehicles|) of them; when the vehicles
\* outnumber the available spots only the first |available| vehicles take
\* part; every vehicle that takes part is assigned, so the mapping has exactly
\* min(|vehicles|, |available|) entries
C29_HungarianBoundsAndAssignsAll ==
    [][last'.op = "hungarian_assignment" =>
          LET vs == BatchOf(facility, last'.vehicles)
              available == AvailableSpotIds(facility)
              participants == HungarianVehicles(facility, vs)
          IN  /\ (vs # <<>> /\ available # <<>>) => HungarianBounded(facility, vs)
              /\ last'.ret.raised = ""
              /\ DOMAIN last'.ret.value = {participants[k].id : k \in DOMAIN participants}
              /\ Cardinality(DOMAIN last'.ret.value) = Min2(Len(vs), Len(available))]_vars

\* the distance of a spot from the first entrance of the layout
EntranceDistance(f, spot_id) ==
    BFSDistance(f.layout, <<0, f.layout.entrances[1][1], f.layout.entrances[1][2]>>,
                SpotNode(SpotOf(f, spot_id)))

\* the spot is a k-th nearest of the available spots: fewer than k of them
\* are strictly nearer and at least k of them are as near
KthNearest(f, spot_id, k) ==
    LET available == Range(AvailableSpotIds(f))
        d == EntranceDistance(f, spot_id)
    IN  /\ spot_id \in available
        /\ Cardinality({s \in available : EntranceDistance(f, s) < d}) < k
        /\ Cardinality({s \in available : EntranceDistance(f, s) <= d}) >= k

\* the available spots all have the same preference score for each vehicle
EqualScores(f, vs) ==
    \A k \in DOMAIN vs : \A s, t \in Range(AvailableSpotIds(f)) :
        _compute_spot_preference_score(f.layout, SpotOf(f, s), vs[k])
            = _compute_spot_preference_score(f.layout, SpotOf(f, t), vs[k])

\* the step is a call of nearest_spot_assignment on a layout with an entrance
\* and a facility with at most 5 available spots that score equally
NearestOnEqualScores ==
    /\ last'.op = "nearest_spot_assignment"
    /\ facility.layout.entrances # <<>>
    /\ Len(AvailableSpotIds(facility)) <= TopCount
    /\ EqualScores(facility, BatchOf(facility, last'.vehicles))

\* C30: in a nearest_spot_assignment batch on a facility with at most 5
\* available spots that all score equally for every vehicle, the k-th vehicle
\* receives a k-th nearest available spot from the entrance (none once the
\* available spots are used up), and no two vehicles receive the same spot
C30_KthVehicleKthNearest ==
    [][NearestOnEqualScores =>
          LET vs == BatchOf(facility, last'.vehicles)
              a == last'.ret.value
              n == Len(AvailableSpotIds(facility))
          IN  /\ last'.ret.raised = ""
              /\ \A k \in DOMAIN vs :
                    IF k <= n
                    THEN vs[k].id \in DOMAIN a /\ KthNearest(facility, a[vs[k].id], k)
                    ELSE vs[k].id \notin DOMAIN a
              /\ \A v, w \in DOMAIN a : v # w => a[v] # a[w]]_vars

\* the scenario of the specification: the entrance at (0,1), both spots
\* available and scoring equally; vehicle 1 got the spot at (1,1) and vehicle
\* 2 the spot at (3,1)
C30_Witness ==
    /\ last.op = "nearest_spot_assignment"
    /\ last.ret.raised = ""
    /\ facility.layout.entrances = << <<0, 1>> >>
    /\ Len(last.vehicles) = 2
    /\ Len(AvailableSpotIds(facility)) = 2
    /\ \A i \in DOMAIN facility.spots : facility.spots[i].type = "standard"
    /\ EqualScores(facility, BatchOf(facility, last.vehicles))
    /\ DOMAIN last.ret.value = Range(last.vehicles)
    /\ SpotOf(facility, last.ret.value[last.vehicles[1]]).location = <<1, 1>>
    /\ SpotOf(facility, last.ret.value[last.vehicles[2]]).location = <<3, 1>>

-----------------------------------------------------------------------------
\* The simulator: claims

\* the step is a call of step_simulation on a simulator that is running
StepRuns == last'.op = "step_simulation" /\ simulator.is_running

\* target_time of the call
TargetTime == simulator.simulation_time + last'.time_step

\* the events a pass of the loop added to the queue
EnqueuedBy(e) == Range(e.after.events) \ Range(e.before.events)

\* C14: a step of a running simulator returns; it dispatches exactly the
\* events due by now + time_step, those scheduled during the step included,
\* in non-decreasing time order and each with now set to its time, and leaves
\* now at its value at entry plus time_step
C14_StepDispatchesDue ==
    [][StepRuns =>
          LET d == last'.dispatched
          IN  /\ last'.raised = ""
              /\ simulator'.simulation_time = TargetTime
              /\ \A k \in DOMAIN d : d[k].event[1] <= TargetTime /\ d[k].now = d[k].event[1]
              /\ \A k \in 1..(Len(d) - 1) : d[k].event[1] <= d[k + 1].event[1]
              /\ \A e \in Range(simulator'.events) : e[1] > TargetTime
              /\ Range(simulator.events) \cup UNION {EnqueuedBy(d[k]) : k \in DOMAIN d}
                    = {d[k].event : k \in DOMAIN d} \cup Range(simulator'.events)]_vars

\* the number of events of a type in the queue
CountOf(heap, type) == Cardinality({k \in DOMAIN heap : heap[k][2] = type})

\* the pass dispatched an arrival, and the vehicle occupies a spot after it
AssignedIn(e) ==
    /\ e.event[2] = "arrival"
    /\ \E i \in DOMAIN e.after.facility.spots :
          e.after.facility.spots[i].vehicle_id = Some(e.event[3].id)

\* the pass dispatched an arrival, and the vehicle occupies no spot after it
BalkedIn(e) == e.event[2] = "arrival" /\ ~AssignedIn(e)

\* C15: a pass that dispatches an arrival and assigns the vehicle a spot
\* enqueues exactly one departure event, carrying the id of that spot, at
\* vehicle.arrival_time + vehicle.expected_duration
C15_DepartureScheduled ==
    [][last'.op = "step_simulation" =>
          \A k \in DOMAIN last'.dispatched :
              LET e == last'.dispatched[k]
                  v == e.event[3]
              IN  AssignedIn(e) =>
                      /\ v.id \in DOMAIN e.after.facility.vehicles
                      /\ LET spot_id == e.after.facility.vehicles[v.id].assigned_spot[1]
                         IN  /\ SpotOf(e.after.facility, spot_id).vehicle_id = Some(v.id)
                             /\ CountOf(e.after.events, "departure")
                                   = CountOf(e.before.events, "departure") + 1
                             /\ {x \in EnqueuedBy(e) : x[2] = "departure"}
                                   = {<<v.arrival_time + v.expected_duration, "departure",
                                        spot_id>>}]_vars

\* a step assigned a spot to a vehicle that arrived after time 0
C15_Witness ==
    /\ last.op = "step_simulation"
    /\ \E k \in DOMAIN last.dispatched :
          /\ AssignedIn(last.dispatched[k])
          /\ last.dispatched[k].event[3].arrival_time > 0

\* C16: a pass that dispatches an arrival and assigns no spot leaves the
\* facility as it was and enqueues no departure and no event for the vehicle;
\* afterwards the vehicle can come back neither to the queue, where every
\* arrival enqueued is for a vehicle with a new id, nor to the facility, which
\* a vehicle enters only in the pass that dispatches its own arrival
C16_BalkedVehicleIsDropped ==
    [][/\ last'.op = "step_simulation" =>
             \A k \in DOMAIN last'.dispatched :
                 LET e == last'.dispatched[k]
                     entered == DOMAIN e.after.facility.vehicles
                                    \ DOMAIN e.before.facility.vehicles
                 IN  /\ BalkedIn(e) =>
                           /\ e.after.facility = e.before.facility
                           /\ CountOf(e.after.events, "departure")
                                 = CountOf(e.before.events, "departure")
                           /\ \A x \in Range(e.after.events) :
                                 x[2] = "arrival" => x[3].id # e.event[3].id
                     /\ \A x \in EnqueuedBy(e) :
                           x[2] = "arrival" => x[3].id >= e.before.vehicle_id_counter
                     /\ e.after.vehicle_id_counter >= e.before.vehicle_id_counter
                     /\ entered \subseteq (IF e.event[2] = "arrival" THEN {e.event[3].id} ELSE {})
       /\ last'.op # "step_simulation" =>
             /\ DOMAIN facility'.vehicles \subseteq DOMAIN facility.vehicles
             /\ simulator'.vehicle_id_counter >= simulator.vehicle_id_counter
             /\ \A x \in Range(simulator'.events) \ Range(simulator.events) :
                   x[2] = "arrival" /\ x[3].id >= simulator.vehicle_id_counter]_vars

\* a step dispatched the arrival of a vehicle while no spot was available
C16_Witness ==
    /\ last.op = "step_simulation"
    /\ \E k \in DOMAIN last.dispatched :
          /\ BalkedIn(last.dispatched[k])
          /\ last.dispatched[k].before.facility.available_spots = 0

\* C17: a pass that dispatches an arrival enqueues exactly one event, the
\* arrival of a vehicle with a new id at a time >= now, whether or not it
\* assigned a spot (a departure apart); a pass that dispatches a departure
\* enqueues nothing
C17_NextArrivalScheduled ==
    [][last'.op = "step_simulation" =>
          \A k \in DOMAIN last'.dispatched :
              LET e == last'.dispatched[k]
                  arrivals == {x \in EnqueuedBy(e) : x[2] = "arrival"}
              IN  IF e.event[2] = "arrival"
                  THEN /\ CountOf(e.after.events, "arrival")
                             = CountOf(e.before.events, "arrival") + 1
                       /\ Cardinality(arrivals) = 1
                       /\ \A x \in arrivals :
                             /\ x[1] >= e.now
                             /\ x[3].arrival_time = x[1]
                             /\ x[3].id = e.before.vehicle_id_counter
                             /\ x[3].id # e.event[3].id
                             /\ x[3].id \notin DOMAIN e.before.facility.vehicles
                             /\ \A y \in Range(e.before.events) :
                                   y[2] = "arrival" => y[3].id # x[3].id
                  ELSE e.after.events = e.before.events]_vars

\* the passes j < k of the step dispatched the arrival of a vehicle, which
\* got a spot, and then its departure, the only departure of the step
Crossed(d, j, k) ==
    /\ j < k
    /\ AssignedIn(d[j])
    /\ d[k].event = <<d[j].event[3].arrival_time + d[j].event[3].expected_duration,
                      "departure",
                      d[j].after.facility.vehicles[d[j].event[3].id].assigned_spot[1]>>
    /\ \A i \in DOMAIN d : d[i].event[2] = "departure" => i = k

\* C18: when a step that returns crosses the arrival of a vehicle and then
\* its departure, the spot is available and without occupant at the end of
\* the step unless a later arrival took it, and the revenue has grown by
\* (duration / 3600) * 2, duration being departure time minus arrival time
\* (the revenue is kept in units of 1/1800)
C18_CrossedStayEarnsRevenue ==
    [][last'.op = "step_simulation" /\ last'.raised = "" =>
          LET d == last'.dispatched
          IN  \A j, k \in DOMAIN d :
                  Crossed(d, j, k) =>
                      /\ (\A i \in DOMAIN d : i > k => ~AssignedIn(d[i])) =>
                             LET spot == SpotOf(facility', d[k].event[3])
                             IN  get_status(spot) = "available" /\ spot.vehicle_id = None
                      /\ facility'.statistics.revenue
                            = facility.statistics.revenue + (d[k].event[1] - d[j].event[1])]_vars

\* C19: after start_simulation the simulator is running, its logical time is
\* 0 and its queue holds the events it held before the call and one arrival
\* event more
C19_StartRunsFromZero ==
    [][last'.op = "start_simulation" =>
          /\ simulator'.is_running
          /\ simulator'.simulation_time = 0
          /\ Len(simulator'.events) = Len(simulator.events) + 1
          /\ CountOf(simulator'.events, "arrival") = CountOf(simulator.events, "arrival") + 1
          /\ Range(simulator.events) \subseteq Range(simulator'.events)
          /\ facility' = facility]_vars

\* start_simulation was called on a simulator that had parked a vehicle, whose
\* departure is pending
C19_Witness ==
    /\ last.op = "start_simulation"
    /\ simulator.is_running
    /\ simulator.simulation_time = 0
    /\ CountOf(simulator.events, "departure") = 1
    /\ \E i \in DOMAIN facility.spots : facility.spots[i].occupied

\* C20: stop_simulation clears the running flag and changes nothing else: the
\* queue, the logical time, the vehicle id counter and the facility are as
\* before the call, and every spot is in one of its three states
C20_StopChangesOnlyFlag ==
    [][last'.op = "stop_simulation" =>
          /\ ~simulator'.is_running
          /\ simulator'.events = simulator.events
          /\ simulator'.simulation_time = simulator.simulation_time
          /\ simulator'.vehicle_id_counter = simulator.vehicle_id_counter
          /\ simulator'.time_of_day = simulator.time_of_day
          /\ simulator'.day_of_week = simulator.day_of_week
          /\ simulator'.arrival_rate = simulator.arrival_rate
          /\ facility' = facility
          /\ \A i \in DOMAIN facility'.spots :
                LET spot == facility'.spots[i]
                IN  /\ ~(spot.occupied /\ spot.reserved)
                    /\ spot.occupied <=> spot.vehicle_id # None
                    /\ spot.occupied <=> spot.occupied_since # None]_vars

\* stop_simulation was called on a running simulator with a vehicle parked
\* and events pending
C20_Witness ==
    /\ last.op = "stop_simulation"
    /\ ~simulator.is_running
    /\ simulator.simulation_time > 0
    /\ CountOf(simulator.events, "departure") = 1
    /\ CountOf(simulator.events, "arrival") = 1
    /\ \E i \in DOMAIN facility.spots : facility.spots[i].occupied

\* C21: a step of a stopped simulator returns at once: it pops and dispatches
\* no event and leaves the queue, the logical time, time_of_day, day_of_week
\* and the facility as they were; a step dispatches events only on a running
\* simulator, which is_running makes one that was started and not stopped since
C21_StoppedStepIsNoOp ==
    [][/\ (last'.op = "step_simulation" /\ ~simulator.is_running) =>
             /\ last'.raised = ""
             /\ last'.dispatched = <<>>
             /\ simulator' = simulator
             /\ facility' = facility
       /\ (last'.op = "step_simulation" /\ last'.dispatched # <<>>) => simulator.is_running
       /\ (simulator'.is_running /\ ~simulator.is_running) => last'.op = "start_simulation"
       /\ (~simulator'.is_running /\ simulator.is_running) => last'.op = "stop_simulation"]_vars

\* step_simulation was called on a stopped simulator whose queue holds an
\* event due within the step, with a vehicle parked
C21_Witness ==
    /\ last.op = "step_simulation"
    /\ ~simulator.is_running
    /\ last.dispatched = <<>>
    /\ simulator.events # <<>>
    /\ simulator.events[1][1] <= simulator.simulation_time + last.time_step
    /\ \E i \in DOMAIN facility.spots : facility.spots[i].occupied

\* C24: no facility is ever built from a layout with two or more floors and
\* no entrance: construction fails before it creates a spot
C24_FaultyLayoutRejected ==
    ~(/\ facility.layout.floors >= 2
      /\ facility.layout.entrances = <<>>
      /\ facility.spots # <<>>)

\* event x was in the queue before event y was pushed: x was there when a
\* pass of the step pushed y, or the pass pushed the departure x and then the
\* arrival y
EnqueuedBefore(d, x, y) ==
    \E j \in DOMAIN d :
        /\ y \in EnqueuedBy(d[j])
        /\ \/ x \in Range(d[j].before.events)
           \/ x \in EnqueuedBy(d[j]) /\ x[2] = "departure" /\ y[2] = "arrival"

\* C26: no call fails on a comparison of two events of the same time, and of
\* two events of the same time a step dispatches, the one pushed first is
\* dispatched first
C26_TiesInInsertionOrder ==
    [][/\ last'.op \in {"start_simulation", "step_simulation"} => last'.raised # "TypeError"
       /\ last'.op = "step_simulation" =>
             LET d == last'.dispatched
             IN  \A a, b \in DOMAIN d :
                     (a < b /\ d[a].event[1] = d[b].event[1]) =>
                         ~EnqueuedBefore(d, d[b].event, d[a].event)]_vars

\* C27: a change of the arrival rate changes no event of the queue; an event
\* stays in the queue as it was pushed until a step pops it, and is dispatched
\* as it was pushed: an arrival with the time, type, expected duration and
\* preferences of its vehicle, whose departure is set expected_duration after
\* it, a departure at its time
C27_EnqueuedEventsKeepParameters ==
    [][/\ last'.op = "on_arrival_change" =>
             /\ simulator'.events = simulator.events
             /\ simulator'.simulation_time = simulator.simulation_time
             /\ simulator'.vehicle_id_counter = simulator.vehicle_id_counter
             /\ facility' = facility
       /\ last'.op # "step_simulation" =>
             Range(simulator.events) \subseteq Range(simulator'.events)
       /\ (last'.op = "step_simulation" /\ last'.raised = "") =>
             LET d == last'.dispatched
             IN  /\ \A e \in Range(simulator.events) :
                       e \in Range(simulator'.events) \/ \E k \in DOMAIN d : d[k].event = e
                 /\ \A k \in DOMAIN d :
                       /\ \/ d[k].event \in Range(simulator.events)
                          \/ \E j \in 1..(k - 1) : d[k].event \in EnqueuedBy(d[j])
                       /\ d[k].now = d[k].event[1]
                       /\ d[k].event[2] = "arrival" =>
                             /\ d[k].event[3].arrival_time = d[k].event[1]
                             /\ \A x \in EnqueuedBy(d[k]) :
                                   x[2] = "departure" =>
                                       x[1] = d[k].event[1] + d[k].event[3].expected_duration]_vars

\* the arrival rate was set to 0 while the arrival of a vehicle was in the
\* queue, and a later step dispatched that arrival at its time and parked the
\* vehicle
C27_Witness ==
    /\ last.op = "step_simulation"
    /\ last.raised = ""
    /\ simulator.arrival_rate = 0
    /\ \E k \in DOMAIN last.dispatched :
          /\ AssignedIn(last.dispatched[k])
          /\ last.dispatched[k].event[1] > 0
          /\ last.dispatched[k].event[1] < Infinity

\* the arrival events of a queue that have a time
TimedArrivals(heap) == {e \in Range(heap) : e[2] = "arrival" /\ e[1] < Infinity}

\* an arrival was scheduled at rate 0 (its event, at time infinity, is in the
\* queue) and the queue holds no arrival that has a time
ArrivalsOff(sim) ==
    /\ \E e \in Range(sim.events) : e[2] = "arrival" /\ e[1] >= Infinity
    /\ TimedArrivals(sim.events) = {}

\* the step dispatches no arrival and no vehicle enters the facility
NoArrivalIn(d) ==
    /\ \A k \in DOMAIN d : d[k].event[2] # "arrival"
    /\ DOMAIN facility'.vehicles \subseteq DOMAIN facility.vehicles

-----------------------------------------------------------------------------
\* The preference score and the queries: claims

\* the Manhattan distances from a spot to the entrances of its layout
EntranceDistances(l, spot) ==
    {Abs(spot.location[1] - l.entrances[k][1]) + Abs(spot.location[2] - l.entrances[k][2]) :
        k \in DOMAIN l.entrances}

\* the score without the part of the near_entrance flag: 10, plus 20 when
\* vehicle and spot are both handicap, plus 15 when both are electric, plus 5
\* when the spot is standard
TypeScore(spot, vehicle) ==
    10 + (IF vehicle.type = "handicap" /\ spot.type = "handicap" THEN 20 ELSE 0)
       + (IF vehicle.type = "electric" /\ spot.type = "electric" THEN 15 ELSE 0)
       + (IF spot.type = "standard" THEN 5 ELSE 0)

\* C31: the preference score of (spot, vehicle) is 10, plus 20 if both are
\* handicap, plus 15 if both are electric, plus 5 if the spot is standard,
\* plus max(0, 5 - d) if the vehicle has the near_entrance flag, d being the
\* least Manhattan distance from the spot to an entrance; computing it
\* changes no facility, spot or vehicle state
C31_PreferenceScore ==
    [][last'.op = "_compute_spot_preference_score" =>
          LET spot == facility.spots[last'.spot]
              vehicle == last'.vehicle
              D == EntranceDistances(facility.layout, spot)
          IN  /\ last'.ret.raised = ""
              /\ IF "near_entrance" \in vehicle.preferences
                 THEN \E d \in D :
                         /\ \A e \in D : d <= e
                         /\ last'.ret.value = TypeScore(spot, vehicle) + Max2(0, 5 - d)
                 ELSE last'.ret.value = TypeScore(spot, vehicle)
              /\ facility' = facility
              /\ simulator' = simulator]_vars

\* statistics["avg_occupancy_rate"] of facility f as numerator and denominator
AvgFraction(f) ==
    <<f.statistics.avg_occupancy_rate[1],
      Max2(f.total_spots, 1) * Pow20(f.statistics.avg_occupancy_rate[2])>>

\* C32: get_occupancy_status changes nothing but the rolling average occupancy
\* rate, which becomes 0.95 * old + 0.05 * current rate: the spots, the
\* available counter, the live-vehicle index, total_vehicles and the revenue
\* are unchanged, and the snapshot returned has occupied + available = total;
\* get_path_to_spot and _dijkstra change no state at all
C32_QueriesFrame ==
    [][/\ last'.op = "get_occupancy_status" =>
             LET old == AvgFraction(facility)
                 new == AvgFraction(facility')
                 rate == last'.ret.occupancy_rate
             IN  /\ 20 * new[1] * old[2] * rate[2]
                        = 19 * old[1] * new[2] * rate[2] + rate[1] * old[2] * new[2]
                 /\ rate[1] * last'.ret.total_spots = last'.ret.occupied_spots * rate[2]
                 /\ facility'.spots = facility.spots
                 /\ facility'.available_spots = facility.available_spots
                 /\ facility'.vehicles = facility.vehicles
                 /\ facility'.statistics.total_vehicles = facility.statistics.total_vehicles
                 /\ facility'.statistics.revenue = facility.statistics.revenue
                 /\ facility' = [facility EXCEPT !.statistics.avg_occupancy_rate =
                                                     facility'.statistics.avg_occupancy_rate]
                 /\ simulator' = simulator
                 /\ last'.ret.occupied_spots + last'.ret.available_spots
                        = last'.ret.total_spots
       /\ last'.op \in {"get_path_to_spot", "_dijkstra"} =>
             /\ facility' = facility
             /\ simulator' = simulator]_vars

\* a second occupancy query on a facility with an occupied spot has returned
C32_Witness ==
    /\ last.op = "get_occupancy_status"
    /\ last.ret.occupied_spots > 0
    /\ facility.statistics.avg_occupancy_rate[2] = 2
    /\ facility.statistics.avg_occupancy_rate[1] > 0

\* the spots of facility f that are occupied
OccupiedSpots(f) == {i \in DOMAIN f.spots : f.spots[i].occupied}

\* C33: in every reachable state the available counter is the number of spots
\* minus the number of occupied spots; a reserved spot that is not occupied is
\* still counted available
C33_AvailableCounter ==
    facility.available_spots = facility.total_spots - Cardinality(OccupiedSpots(facility))


\* two vehicles were parked, one has left, and a spot that is not occupied is
\* reserved
C33_Witness ==
    /\ facility.statistics.total_vehicles = 2
    /\ Cardinality(OccupiedSpots(facility)) = 1
    /\ \E i \in DOMAIN facility.spots :
          facility.spots[i].reserved /\ ~facility.spots[i].occupied

\* the positions in the events list of the pending events of one type
Pending(type) == {k \in DOMAIN simulator.events : simulator.events[k][2] = type}

\* C34: in every state reachable through the simulator the pending departure
\* events and the occupied spots correspond one to one: every occupied spot
\* has exactly one pending departure event that carries its id, and every
\* pending departure event names a spot that is occupied
C34_DeparturesMatchOccupiedSpots ==
    /\ \A i \in OccupiedSpots(facility) :
          Cardinality({k \in Pending("departure") :
                          simulator.events[k][3] = facility.spots[i].id}) = 1
    /\ \A k \in Pending("departure") :
          \E i \in OccupiedSpots(facility) : simulator.events[k][3] = facility.spots[i].id

\* start_simulation has been called
Started == simulator.is_running \/ simulator.vehicle_id_counter > 1

\* C35: at every moment after the first start_simulation, across any sequence
\* of start, stop and step calls, the events list holds exactly one pending
\* arrival event
C35_OnePendingArrival ==
    Started => Cardinality(Pending("arrival")) = 1

\* the last simulation time a step of the model reaches
Horizon == MaxSteps * MinDuration

\* the facility has an i-th spot and it is occupied
SpotOccupied(i) == i \in DOMAIN facility.spots /\ facility.spots[i].occupied

\* the i-th spot is occupied by a vehicle whose stay ends within the horizon
DueWithinHorizon(i) ==
    /\ SpotOccupied(i)
    /\ \E k \in DOMAIN facility.vehicles :
          /\ facility.vehicles[k].id = facility.spots[i].vehicle_id[1]
          /\ facility.vehicles[k].arrival_time + facility.vehicles[k].expected_duration
                <= Horizon

\* C36: if the simulator keeps running and step_simulation is called again
\* and again with a positive time step, every vehicle that was assigned a spot
\* eventually departs and no spot stays occupied for ever: when the steps
\* have brought the simulation time to the horizon, no spot is still occupied
\* by a vehicle whose stay ended by then
C36_EveryVehicleDeparts ==
    (/\ simulator.is_running
     /\ last.op = "step_simulation"
     /\ simulator.simulation_time = Horizon)
        => \A i \in DOMAIN facility.spots : ~DueWithinHorizon(i)

\* the graph of the facility connects its first entrance to every spot
ConnectedToEntrance(f) ==
    /\ f.layout.entrances # <<>>
    /\ \A i \in DOMAIN f.spots : EntranceDistance(f, f.spots[i].id) < Infinity

\* the spots of facility f that are neither occupied nor reserved
OpenSpots(f) == {i \in DOMAIN f.spots : ~f.spots[i].occupied /\ ~f.spots[i].reserved}

\* C37: in a facility whose graph connects the first entrance to every spot,
\* assign_vehicle_to_spot(vehicle) with no spot id succeeds whenever at least
\* one spot is neither occupied nor reserved, and fails only when there is
\* none
C37_AssignSucceedsWhileSpotsFree ==
    [][(/\ last'.op = "assign_vehicle_to_spot"
        /\ last'.spot_id = None
        /\ ConnectedToEntrance(facility))
          => /\ last'.ret.raised = ""
             /\ last'.ret.value <=> OpenSpots(facility) # {}
             /\ last'.ret.value =>
                   \E i \in OpenSpots(facility) :
                       /\ facility'.spots[i].occupied
                       /\ facility'.spots[i].vehicle_id = Some(last'.vehicle.id)]_vars

\* a vehicle was given a spot by a call with no spot id while another spot was
\* reserved
C37_Witness ==
    /\ last.op = "assign_vehicle_to_spot"
    /\ last.spot_id = None
    /\ last.ret = Returned(TRUE)
    /\ ConnectedToEntrance(facility)
    /\ \E i \in DOMAIN facility.spots :
          facility.spots[i].reserved /\ ~facility.spots[i].occupied

\* C38: in every state reachable through the simulator the live-vehicle index
\* holds exactly the vehicles that occupy a spot: its keys are the occupant ids
\* of the occupied spots, each indexed vehicle's assigned_spot is the spot it
\* occupies, no vehicle occupies two spots, and the size of the index is
\* total_spots minus the available counter
C38_IndexMatchesOccupants ==
    /\ DOMAIN facility.vehicles
          = {facility.spots[i].vehicle_id[1] : i \in OccupiedSpots(facility)}
    /\ \A id \in DOMAIN facility.vehicles :
          \E i \in OccupiedSpots(facility) :
              /\ facility.spots[i].vehicle_id = Some(id)
              /\ facility.vehicles[id].assigned_spot = Some(facility.spots[i].id)
    /\ \A i, j \in OccupiedSpots(facility) :
          facility.spots[i].vehicle_id = facility.spots[j].vehicle_id => i = j
    /\ Cardinality(DOMAIN facility.vehicles)
          = facility.total_spots - facility.available_spots

\* a vehicle is parked by the simulator after another has left
C38_Witness ==
    /\ client = "simulation"
    /\ Cardinality(DOMAIN facility.vehicles) = 1
    /\ facility.statistics.total_vehicles = 2

-----------------------------------------------------------------------------
\* The spots: claims

\* C1: in every reachable state no spot is both occupied and reserved, and a
\* spot has an occupant (vehicle_id) exactly when it is occupied
C1_SpotStatusExclusive ==
    \A i \in DOMAIN facility.spots :
        LET spot == facility.spots[i]
        IN  /\ ~(spot.occupied /\ spot.reserved)
            /\ (spot.vehicle_id # None) <=> spot.occupied

\* a step of the simulator parked a vehicle on a spot
C1_Witness ==
    /\ client = "simulation"
    /\ last.op = "step_simulation"
    /\ \E i \in DOMAIN facility.spots :
          facility.spots[i].occupied /\ facility.spots[i].vehicle_id # None

====
